---- MODULE Spec2Model ----
(***************************************************************************)
(* Brainf*ck toolchain of ThreadedCodeDemo: the source scanner             *)
(* (PeekableProgramInput), the CISC lifter (CodePlanter of                 *)
(* cisc_compiler_demo.cpp), the CISC runner (Engine of the runner) and the *)
(* one-character-at-a-time interpreter (direct_threading_demo.cpp).        *)
(***************************************************************************)
EXTENDS Integers, Sequences, FiniteSets, TLC

VARIABLES
    args,       \* argv of the compiler, each argument a sequence of its parts
    src,        \* the bytes given to the compiler on its standard input
    stdin,      \* the bytes given to the interpreters on their standard input
    flags,      \* CompileFlags
    planter,    \* CodePlanter with its PeekableProgramInput
    cstatus,    \* where the compiler process is
    last,       \* the most recent scanner call and what it returned
    ir,         \* what the compiler has written to its standard output
    runner,     \* Engine of the CISC runner
    naive,      \* Engine of the direct-threading interpreter
    files,      \* argv of a runner that is given IR files of any producer
    ended       \* the Engines of that runner whose runFile has returned

vars == <<args, src, stdin, flags, planter, cstatus, last, ir, runner, naive, files, ended>>

----------------------------------------------------------------------------
(* Bounds *)
MaxArgs == 2
MaxFiles == 2       \* most IR files named to one runner process

MaxScanLen == 4     \* longest raw source given to the scanner on its own
MaxStrLen == 2      \* longest string handed to tryPopString
MaxPeek == 2        \* largest index handed to peekN
MaxSrcLen == 3      \* longest source made of arbitrary bytes
MaxPrefixLen == 1   \* longest run of arbitrary bytes put before a loop of Loops
TapeLen == 3        \* cells of the tape (std::vector<num> memory( 30000 ))
MaxSteps == 24      \* instructions an interpreter is followed for
MaxInLen == 1       \* longest standard input of an interpreter
MaxProgLen == 3     \* most instructions of an IR file that is run as written
MaxRunLen == 3      \* longest source of arbitrary commands that is run

----------------------------------------------------------------------------
(* Characters *)

Cmds == {">", "<", "+", "-", ".", ",", "[", "]"}
Comment == "#"
Bytes == Cmds \cup {Comment}
None == "nullopt"
ScanCmds == {"-", "]", "+"}         \* the command characters the lone scanner is fed
ScanBytes == ScanCmds \cup {Comment}

Strings(S, n) == UNION {[1..k -> S] : k \in 0..n}

RECURSIVE Strip(_)
Strip(s) ==
    IF s = <<>> THEN <<>>
    ELSE IF Head(s) \in Cmds THEN <<Head(s)>> \o Strip(Tail(s))
    ELSE Strip(Tail(s))

(* Loops of more than MaxSrcLen bytes: the idioms of plantExpr, their near  *)
(* misses, and loops in loops.                                             *)
Loops ==
    { <<"[", "-", "]">>, <<"[", ">", "]">>,
      <<"+", "+", "[", "-", "]">>, <<"[", "+", "[", "-", "]", "]">>,
      <<"[", Comment, "-", Comment, "]">>,
      <<"[", ">", "+", "<", "-", "]">>, <<"[", "<", "+", ">", "-", "]">>,
      <<"[", "-", ">", "+", "<", "]">>, <<"[", ">", "+", "+", "<", "-", "]">>,
      <<"[", "-", ">", "+", "+", "<", "]">>, <<"[", ">", "+", "<", "-", Comment, "]">>,
      <<"[", ">", "+", "<", "-", "-", "]">>, <<"[", "<", "<", "-", ">", "]">>,
      <<"[", ">", "+", "-", "<", "-", "]">>, <<"[", ">", "[", "<", "]", "]">>,
      <<"+", "+", "+", "+", "+", "+", "+", "+", "[", "-", "]">>,
      <<"[", Comment, ".", "]", "+">>, <<">", "+", "[", "<", "]">> }
Suffixes == { <<>>, <<"]">>, <<".">> }

Embedded(prefixes) == {p \o l \o q : p \in prefixes, l \in Loops, q \in Suffixes}

RECURSIVE Balanced(_, _)
Balanced(s, depth) ==
    IF s = <<>> THEN depth = 0
    ELSE IF Head(s) = "[" THEN Balanced(Tail(s), depth + 1)
    ELSE IF Head(s) = "]" THEN depth > 0 /\ Balanced(Tail(s), depth - 1)
    ELSE Balanced(Tail(s), depth)

Range(s) == {s[i] : i \in 1..Len(s)}

Drop(s, n) == SubSeq(s, n + 1, Len(s))
Take(s, n) == SubSeq(s, 1, n)

----------------------------------------------------------------------------
(* PeekableProgramInput.  A scanner value is any record with the fields    *)
(* input (what std::istream still holds) and buffer (the deque).           *)

(* nextChar without the switch that lets only the commands through. *)
nextChar_raw(s) ==
    IF s.input = <<>> THEN [r |-> None, s |-> s]
    ELSE [r |-> Head(s.input), s |-> [s EXCEPT !.input = Tail(@)]]

RECURSIVE nextChar(_)
nextChar(s) ==
    IF s.input = <<>> THEN [r |-> None, s |-> s]
    ELSE LET ch == Head(s.input)
             s1 == [s EXCEPT !.input = Tail(@)]
         IN  IF ch \in Cmds THEN [r |-> ch, s |-> s1] ELSE nextChar(s1)

RECURSIVE peekN(_, _)
peekN(s, n) ==
    LET got(c) == IF c.r = None THEN [r |-> None, s |-> c.s]
                  ELSE peekN([c.s EXCEPT !.buffer = Append(@, c.r)], n)
    IN  IF Len(s.buffer) <= n THEN got(nextChar(s))
        ELSE [r |-> s.buffer[n + 1], s |-> s]

peek(s) ==
    LET got(c) == IF c.r # None
                  THEN [r |-> c.r, s |-> [c.s EXCEPT !.buffer = Append(@, c.r)]]
                  ELSE [r |-> c.r, s |-> c.s]
    IN  IF s.buffer = <<>> THEN got(nextChar(s))
        ELSE [r |-> Head(s.buffer), s |-> s]

(* pop that takes the character queued last. *)
pop_newest(s) ==
    IF s.buffer = <<>> THEN nextChar(s)
    ELSE [r |-> s.buffer[Len(s.buffer)],
          s |-> [s EXCEPT !.buffer = Take(@, Len(@) - 1)]]


pop(s) ==
    IF s.buffer = <<>> THEN nextChar(s)
    ELSE [r |-> Head(s.buffer), s |-> [s EXCEPT !.buffer = Tail(@)]]

drop(s) ==
    IF s.buffer = <<>>
    THEN [s EXCEPT !.input = IF @ = <<>> THEN <<>> ELSE Tail(@)]
    ELSE [s EXCEPT !.buffer = Tail(@)]

tryPop(s, ch) ==
    LET peeked(p) == IF p.r = ch THEN [r |-> TRUE, s |-> drop(p.s)]
                     ELSE [r |-> FALSE, s |-> p.s]
    IN  peeked(peek(s))

(* tryPopString that discards what it matched so far when a later          *)
(* character differs.                                                      *)
RECURSIVE tryPopStringLoop_eager(_, _, _)
tryPopStringLoop_eager(s, str, n) ==
    LET peeked(p) == IF p.r # str[n + 1]
                     THEN [r |-> FALSE, s |-> [p.s EXCEPT !.buffer = Drop(@, n)]]
                     ELSE tryPopStringLoop_eager(p.s, str, n + 1)
    IN  IF n = Len(str) THEN [r |-> TRUE, s |-> [s EXCEPT !.buffer = Drop(@, n)]]
        ELSE peeked(peekN(s, n))

RECURSIVE tryPopStringLoop(_, _, _)
tryPopStringLoop(s, str, n) ==
    LET peeked(p) == IF p.r # str[n + 1] THEN [r |-> FALSE, s |-> p.s]
                     ELSE tryPopStringLoop(p.s, str, n + 1)
    IN  IF n = Len(str) THEN [r |-> TRUE, s |-> [s EXCEPT !.buffer = Drop(@, n)]]
        ELSE peeked(peekN(s, n))

tryPopString(s, str) == tryPopStringLoop(s, str, 0)

(* What pop() would return from now on, in order. *)
CmdStream(s) == s.buffer \o Strip(s.input)

----------------------------------------------------------------------------
(* IR records (the json array `program` of the compiler).  d is the        *)
(* presence of the DiscardBeforeSetZero key.                               *)

OpRec(name, d) == [k |-> "OpCode", op |-> name, n |-> 0, hi |-> 0, lo |-> 0, d |-> d]
OperandRec(n, d) == [k |-> "Operand", op |-> "", n |-> n, hi |-> 0, lo |-> 0, d |-> d]
DyadRec(hi, lo) == [k |-> "Dyad", op |-> "", n |-> 0, hi |-> hi, lo |-> lo, d |-> FALSE]
NullRec == [k |-> "null", op |-> "", n |-> 0, hi |-> 0, lo |-> 0, d |-> FALSE]

OpCodeOf(name, lz, d) == [name |-> name, locIsZero |-> lz, discardBeforeSetZero |-> d]

InstructionSet ==
    [SET_ZERO     |-> OpCodeOf("SET_ZERO", TRUE, FALSE),
     INCR         |-> OpCodeOf("INCR", FALSE, TRUE),
     DECR         |-> OpCodeOf("DECR", FALSE, TRUE),
     ADD          |-> OpCodeOf("ADD", FALSE, TRUE),
     ADD_OFFSET   |-> OpCodeOf("ADD_OFFSET", FALSE, FALSE),
     XFR_MULTIPLE |-> OpCodeOf("XFR_MULTIPLE", FALSE, FALSE),
     LEFT         |-> OpCodeOf("LEFT", FALSE, FALSE),
     RIGHT        |-> OpCodeOf("RIGHT", FALSE, FALSE),
     SEEK_LEFT    |-> OpCodeOf("SEEK_LEFT", TRUE, FALSE),
     SEEK_RIGHT   |-> OpCodeOf("SEEK_RIGHT", TRUE, FALSE),
     MOVE         |-> OpCodeOf("MOVE", FALSE, FALSE),
     OPEN         |-> OpCodeOf("OPEN", FALSE, FALSE),
     CLOSE        |-> OpCodeOf("CLOSE", TRUE, FALSE),
     GET          |-> OpCodeOf("GET", FALSE, FALSE),
     PUT          |-> OpCodeOf("PUT", FALSE, FALSE),
     HALT         |-> OpCodeOf("HALT", FALSE, FALSE)]

----------------------------------------------------------------------------
(* CompileFlags *)

AllFlags == [deadCodeRemoval : BOOLEAN, seekZero : BOOLEAN, locIsZero : BOOLEAN,
             xfrMultiple : BOOLEAN, unplantSuperfluousCode : BOOLEAN]

DefaultFlags == [deadCodeRemoval |-> TRUE, seekZero |-> TRUE, locIsZero |-> TRUE,
                 xfrMultiple |-> TRUE, unplantSuperfluousCode |-> TRUE]

(* An argument is the sequence of the parts it is written with: "--",      *)
(* any number of "no-", and the rest, so that startsWith( arg, "--no-" )   *)
(* and "--" + arg.substr( 5 ) work on its first two parts.                 *)
Arg(nos, name) == <<"--">> \o nos \o <<name>>
EndOfFlags == <<"--">>

setDeadCode(f, enabled) == [f EXCEPT !.deadCodeRemoval = enabled]
setUnplantSuperfluousCode(f, enabled) == [f EXCEPT !.unplantSuperfluousCode = enabled]
setSeekZero(f, enabled) == [f EXCEPT !.seekZero = enabled]
setPruneWhenLocIsZero(f, enabled) == [f EXCEPT !.locIsZero = enabled]
setXfrMultiple(f, enabled) == [f EXCEPT !.xfrMultiple = enabled]

setAll(f, enabled) ==
    setXfrMultiple(setPruneWhenLocIsZero(setSeekZero(setDeadCode(f, enabled), enabled), enabled),
                   enabled)

startsWith(arg, prefix) == Len(arg) >= Len(prefix) /\ Take(arg, Len(prefix)) = prefix

(* setArg returns the flags, or thrown when it throws runtime_error. *)
Set(f) == [thrown |-> FALSE, f |-> f]
Thrown(f) == [thrown |-> TRUE, f |-> f]

RECURSIVE setArg(_, _, _)
setArg(f, arg, enable) ==
    IF arg = Arg(<<>>, "all") THEN Set(setAll(f, TRUE))
    ELSE IF arg = Arg(<<>>, "none") THEN Set(setAll(f, FALSE))
    ELSE IF arg = Arg(<<>>, "deadcode") THEN Set(setDeadCode(f, enable))
    ELSE IF arg = Arg(<<>>, "seekzero") THEN Set(setSeekZero(f, enable))
    ELSE IF arg = Arg(<<>>, "prune-if-loc-is-zero") THEN Set(setPruneWhenLocIsZero(f, enable))
    ELSE IF arg = Arg(<<>>, "xfrmultiple") THEN Set(setXfrMultiple(f, enable))
    ELSE IF arg = Arg(<<>>, "superfluous") THEN Set(setUnplantSuperfluousCode(f, enable))
    ELSE IF startsWith(arg, <<"--", "no-">>)
         THEN setArg(f, <<"--">> \o Drop(arg, 2), ~ enable)
         ELSE Thrown(f)

(* The constructor CompileFlags( args ), from the flags set so far. *)
RECURSIVE CompileFlagsLoop(_, _)
CompileFlagsLoop(f, as) ==
    LET set(r) == IF r.thrown THEN r ELSE CompileFlagsLoop(r.f, Tail(as))
    IN  IF as = <<>> THEN Set(f)
        ELSE IF Head(as) = EndOfFlags THEN Set(f)
        ELSE set(setArg(f, Head(as), TRUE))

CompileFlags(as) == CompileFlagsLoop(DefaultFlags, as)

(* A command line that sets the flags f, one argument a feature. *)
Toggle(on, name) == IF on THEN Arg(<<>>, name) ELSE Arg(<<"no-">>, name)
ArgsFor(f) ==
    << Toggle(f.deadCodeRemoval, "deadcode"), Toggle(f.seekZero, "seekzero"),
       Toggle(f.locIsZero, "prune-if-loc-is-zero"), Toggle(f.xfrMultiple, "xfrmultiple"),
       Toggle(f.unplantSuperfluousCode, "superfluous") >>

----------------------------------------------------------------------------
(* CodePlanter of the compiler.  A planter value is a scanner value with   *)
(* the fields program, loc_is_zero and indexes, and three history fields:  *)
(* lzAt[i] is loc_is_zero as it was when program[i] was planted, seen is   *)
(* the set of values pop() handed to the planter, and undefined is set     *)
(* when plantCLOSE reads back() of an empty vector.                        *)

NewPlanter(source) ==
    [input |-> source, buffer |-> <<>>, program |-> <<>>, loc_is_zero |-> TRUE,
     indexes |-> <<>>, lzAt |-> <<>>, seen |-> {}, undefined |-> FALSE]

(* sgn that forgets the term for negative values. *)
sgn_unsigned(val) == IF val > 0 THEN 1 ELSE 0

sgn(val) == IF val > 0 THEN 1 ELSE IF val < 0 THEN -1 ELSE 0
(* abs that leaves a negative value as it is. *)
abs_signed(val) == val


abs(val) == IF val < 0 THEN -val ELSE val

MoveAddMove(lhs, by, rhs) == [lhs |-> lhs, by |-> by, rhs |-> rhs]
matches(mim, L, N, R) == L = mim.lhs /\ N = mim.by /\ R = mim.rhs
isNonZeroBalanced(mim) == (mim.lhs # 0) /\ ((mim.lhs + mim.rhs) = 0)

popNoted(s) ==
    LET noted(p) == [r |-> p.r, s |-> [p.s EXCEPT !.seen = @ \cup {p.r}]]
    IN  noted(pop(s))

(* unplantBeforeSetZero that removes one record at most. *)
unplantBeforeSetZero_once(s) ==
    IF s.program = <<>> THEN s
    ELSE IF ~ s.program[Len(s.program)].d THEN s
    ELSE [s EXCEPT !.program = Take(@, Len(@) - 1), !.lzAt = Take(@, Len(@) - 1)]

(* unplantBeforeSetZero that goes on over every record that is no opcode. *)
RECURSIVE unplantBeforeSetZero_greedy(_)
unplantBeforeSetZero_greedy(s) ==
    IF s.program = <<>> THEN s
    ELSE IF ~ s.program[Len(s.program)].d /\ s.program[Len(s.program)].k = "OpCode" THEN s
    ELSE unplantBeforeSetZero_greedy(
            [s EXCEPT !.program = Take(@, Len(@) - 1), !.lzAt = Take(@, Len(@) - 1)])


RECURSIVE unplantBeforeSetZero(_)
unplantBeforeSetZero(s) ==
    IF s.program = <<>> THEN s
    ELSE IF ~ s.program[Len(s.program)].d THEN s
    ELSE unplantBeforeSetZero(
            [s EXCEPT !.program = Take(@, Len(@) - 1), !.lzAt = Take(@, Len(@) - 1)])

(* plantOpCode that leaves loc_is_zero as it was. *)
plantOpCode_stale(s, opcode) ==
    [s EXCEPT !.program = Append(@, OpRec(opcode.name, opcode.discardBeforeSetZero)),
              !.lzAt = Append(@, s.loc_is_zero)]

plantOpCode(s, opcode) ==
    [s EXCEPT !.program = Append(@, OpRec(opcode.name, opcode.discardBeforeSetZero)),
              !.lzAt = Append(@, s.loc_is_zero),
              !.loc_is_zero = opcode.locIsZero]

(* plantOperand that takes loc_is_zero for false afterwards. *)
plantOperand_clearing(s, n, opcode) ==
    [s EXCEPT !.program = Append(@, OperandRec(n, opcode.discardBeforeSetZero)),
              !.lzAt = Append(@, FALSE),
              !.loc_is_zero = FALSE]


plantOperand(s, n, opcode) ==
    [s EXCEPT !.program = Append(@, OperandRec(n, opcode.discardBeforeSetZero)),
              !.lzAt = Append(@, FALSE)]

plantOpCodeAndOperand(s, opcode, n) == plantOperand(plantOpCode(s, opcode), n, opcode)

plantDyad(s, hi, lo) ==
    [s EXCEPT !.program = Append(@, DyadRec(hi, lo)), !.lzAt = Append(@, FALSE)]

plantOPEN(s) ==
    LET opened(s1) == [s1 EXCEPT !.indexes = Append(@, Len(s1.program)),
                                 !.program = Append(@, NullRec),
                                 !.lzAt = Append(@, FALSE)]
    IN  opened(plantOpCode(s, InstructionSet.OPEN))

(* plantCLOSE that gives CLOSE the index of OPEN's operand slot. *)
closeWith_back(s1, start, rest) ==
    LET end == Len(s1.program)
        s2 == [s1 EXCEPT !.indexes = rest,
                         !.program[start + 1] = OperandRec(end + 1, FALSE)]
    IN  plantOperand(s2, start, InstructionSet.CLOSE)

(* plantCLOSE that patches OPEN with the index of CLOSE's operand slot. *)
closeWith_short(s1, start, rest) ==
    LET end == Len(s1.program)
        s2 == [s1 EXCEPT !.indexes = rest,
                         !.program[start + 1] = OperandRec(end, FALSE)]
    IN  plantOperand(s2, start + 1, InstructionSet.CLOSE)

(* The part of plantCLOSE after indexes.back() gave start. *)
closeWith(s1, start, rest) ==
    LET end == Len(s1.program)
        s2 == [s1 EXCEPT !.indexes = rest,
                         !.program[start + 1] = OperandRec(end + 1, FALSE)]
    IN  plantOperand(s2, start + 1, InstructionSet.CLOSE)

plantCLOSE(s) ==
    LET closed(s1) ==
            IF s1.indexes = <<>> THEN [s1 EXCEPT !.undefined = TRUE]
            ELSE closeWith(s1, s1.indexes[Len(s1.indexes)],
                           Take(s1.indexes, Len(s1.indexes) - 1))
    IN  closed(plantOpCode(s, InstructionSet.CLOSE))

(* plantPUT that plants the wrong opcode. *)
plantPUT_halt(s) == plantOpCode(s, InstructionSet.HALT)

plantPUT(s) == plantOpCode(s, InstructionSet.PUT)
plantGET(s) == plantOpCode(s, InstructionSet.GET)
plantSEEK_LEFT(s) == plantOpCode(s, InstructionSet.SEEK_LEFT)
plantSEEK_RIGHT(s) == plantOpCode(s, InstructionSet.SEEK_RIGHT)
plantSetZero(s) == plantOpCode(s, InstructionSet.SET_ZERO)

plantMOVE(s, n) ==
    IF n = 1 THEN plantOpCode(s, InstructionSet.RIGHT)
    ELSE IF n = -1 THEN plantOpCode(s, InstructionSet.LEFT)
    ELSE IF n # 0 THEN plantOpCodeAndOperand(s, InstructionSet.MOVE, n)
    ELSE s

(* plantADD with no short forms for 1 and -1. *)
plantADD_plain(s, n) ==
    IF n # 0 THEN plantOpCodeAndOperand(s, InstructionSet.ADD, n)
    ELSE s

plantADD(s, n) ==
    IF n = 1 THEN plantOpCode(s, InstructionSet.INCR)
    ELSE IF n = -1 THEN plantOpCode(s, InstructionSet.DECR)
    ELSE IF n # 0 THEN plantOpCodeAndOperand(s, InstructionSet.ADD, n)
    ELSE s

RECURSIVE scanAdd(_, _)
scanAdd(s, n) ==
    LET minus(m) == IF m.r THEN scanAdd(m.s, n - 1) ELSE [n |-> n, s |-> m.s]
        plus(p) == IF p.r THEN scanAdd(p.s, n + 1) ELSE minus(tryPop(p.s, "-"))
    IN  plus(tryPop(s, "+"))

RECURSIVE scanMove(_, _)
scanMove(s, n) ==
    LET left(m) == IF m.r THEN scanMove(m.s, n - 1) ELSE [n |-> n, s |-> m.s]
        right(p) == IF p.r THEN scanMove(p.s, n + 1) ELSE left(tryPop(p.s, "<"))
    IN  right(tryPop(s, ">"))

(* plantADD_OFFSET that hands the dyad its halves the wrong way round. *)
plantADD_OFFSET_swapped(s, offset, by) ==
    plantDyad(plantOpCode(s, InstructionSet.ADD_OFFSET), by, offset)


plantADD_OFFSET(s, offset, by) == plantDyad(plantOpCode(s, InstructionSet.ADD_OFFSET), offset, by)
(* plantXFR_MULTIPLE that hands the dyad its halves the wrong way round. *)
plantXFR_MULTIPLE_swapped(s, offset, by) ==
    plantDyad(plantOpCode(s, InstructionSet.XFR_MULTIPLE), by, offset)

plantXFR_MULTIPLE(s, offset, by) == plantDyad(plantOpCode(s, InstructionSet.XFR_MULTIPLE), offset, by)

scanMoveAddMove(s, initial) ==
    LET rhs(l, a, r) == [mim |-> MoveAddMove(l.n, a.n, r.n), s |-> r.s]
        by(l, a) == rhs(l, a, scanMove(a.s, 0))
        lhs(l) == by(l, scanAdd(l.s, 0))
    IN  lhs(scanMove(s, initial))

(* plantMoveAddMove that seeds the next window with mim.rhs alone. *)
RECURSIVE plantMoveAddMove_rhs(_, _)
plantMoveAddMove_rhs(s, mim) ==
    LET abs_lhs == abs(mim.lhs)
        abs_rhs == abs(mim.rhs)
        again(s1, n) ==
            LET scanned(nx) == plantMoveAddMove_rhs(nx.s, nx.mim)
            IN  scanned(scanMoveAddMove(s1, n))
    IN  IF mim.by = 0
        THEN IF mim.rhs = 0 THEN plantMOVE(s, mim.lhs)
             ELSE again(s, mim.rhs)
        ELSE IF (mim.lhs # 0 /\ mim.rhs # 0) /\ (sgn(mim.lhs) # sgn(mim.rhs))
        THEN IF abs_lhs = abs_rhs THEN plantADD_OFFSET(s, mim.lhs, mim.by)
             ELSE IF abs_lhs > abs_rhs
             THEN plantADD_OFFSET(plantMOVE(s, sgn(mim.lhs) * (abs_lhs - abs_rhs)),
                                  sgn(mim.lhs) * abs_rhs, mim.by)
             ELSE again(plantADD_OFFSET(s, mim.lhs, mim.by),
                        sgn(mim.rhs) * (abs_rhs - abs_lhs))
        ELSE again(plantADD(plantMOVE(s, mim.lhs), mim.by), mim.rhs)


RECURSIVE plantMoveAddMove(_, _)
plantMoveAddMove(s, mim) ==
    LET abs_lhs == abs(mim.lhs)
        abs_rhs == abs(mim.rhs)
        (* plantMoveAddMove( scanMoveAddMove( n ) ) *)
        again(s1, n) ==
            LET scanned(nx) == plantMoveAddMove(nx.s, nx.mim)
            IN  scanned(scanMoveAddMove(s1, n))
    IN  IF mim.by = 0
        THEN IF mim.rhs = 0 THEN plantMOVE(s, mim.lhs)
             ELSE IF mim.lhs = 0 THEN again(s, mim.rhs)
             ELSE again(s, mim.lhs + mim.rhs)
        ELSE IF (mim.lhs # 0 /\ mim.rhs # 0) /\ (sgn(mim.lhs) # sgn(mim.rhs))
        THEN IF abs_lhs = abs_rhs THEN plantADD_OFFSET(s, mim.lhs, mim.by)
             ELSE IF abs_lhs > abs_rhs
             THEN plantADD_OFFSET(plantMOVE(s, sgn(mim.lhs) * (abs_lhs - abs_rhs)),
                                  sgn(mim.lhs) * abs_rhs, mim.by)
             ELSE again(plantADD_OFFSET(s, mim.lhs, mim.by),
                        sgn(mim.rhs) * (abs_rhs - abs_lhs))
        ELSE again(plantADD(plantMOVE(s, mim.lhs), mim.by), mim.rhs)

(* The discarding loop that stops at the first `]` it pops. *)
RECURSIVE skipDeadCode_flat(_, _)
skipDeadCode_flat(s, nesting) ==
    LET popped(p) ==
            IF p.r = None \/ p.r = "]" THEN p.s ELSE skipDeadCode_flat(p.s, nesting)
    IN  popped(popNoted(s))

(* The loop of plantExpr that discards a loop entered with a zero cell. *)
RECURSIVE skipDeadCode(_, _)
skipDeadCode(s, nesting) ==
    LET counted(p, nesting1) == IF nesting1 = 0 THEN p.s ELSE skipDeadCode(p.s, nesting1)
        popped(p) ==
            IF p.r = None THEN p.s
            ELSE counted(p, IF p.r = "[" THEN nesting + 1
                            ELSE IF p.r = "]" THEN nesting - 1 ELSE nesting)
    IN  popped(popNoted(s))

(* The idioms tried with the closing characters popped before the flag is  *)
(* looked at.                                                              *)
plantIdiom_eager(sc, close, xfr, f) ==
    LET mim == sc.mim
        bump == matches(mim, 0, 1, 0) \/ matches(mim, 0, -1, 0)
    IN  IF bump /\ close.r /\ f.locIsZero
        THEN plantSetZero(unplantBeforeSetZero(close.s))
        ELSE IF matches(mim, 1, 0, 0) /\ close.r /\ f.seekZero
        THEN plantSEEK_RIGHT(close.s)
        ELSE IF matches(mim, -1, 0, 0) /\ close.r /\ f.seekZero
        THEN plantSEEK_LEFT(close.s)
        ELSE IF isNonZeroBalanced(mim) /\ xfr.r /\ f.xfrMultiple
        THEN plantXFR_MULTIPLE(xfr.s, mim.lhs, mim.by)
        ELSE plantMoveAddMove(
                plantOPEN(IF bump \/ matches(mim, 1, 0, 0) \/ matches(mim, -1, 0, 0)
                          THEN close.s
                          ELSE IF isNonZeroBalanced(mim) THEN xfr.s
                          ELSE sc.s),
                mim)


(* The idioms tried on `[`, given what scanMoveAddMove( 0 ) returned (sc)  *)
(* and what tryPop( ']' ) and tryPopString( "-]" ) return after it.        *)
plantIdiom(sc, close, xfr, f) ==
    LET mim == sc.mim
        bump == matches(mim, 0, 1, 0) \/ matches(mim, 0, -1, 0)
    IN  IF bump /\ f.locIsZero /\ close.r
        THEN plantSetZero(unplantBeforeSetZero(close.s))
        ELSE IF f.seekZero /\ matches(mim, 1, 0, 0) /\ close.r
        THEN plantSEEK_RIGHT(close.s)
        ELSE IF f.seekZero /\ matches(mim, -1, 0, 0) /\ close.r
        THEN plantSEEK_LEFT(close.s)
        ELSE IF f.xfrMultiple /\ isNonZeroBalanced(mim) /\ xfr.r
        THEN plantXFR_MULTIPLE(xfr.s, mim.lhs, mim.by)
        ELSE plantMoveAddMove(
                plantOPEN(IF f.xfrMultiple /\ isNonZeroBalanced(mim) THEN xfr.s
                          ELSE IF (bump /\ f.locIsZero)
                                  \/ (f.seekZero /\ (matches(mim, 1, 0, 0) \/ matches(mim, -1, 0, 0)))
                               THEN close.s
                               ELSE sc.s),
                mim)

plantLoopHead(s, f) ==
    LET scanned(sc) ==
            plantIdiom(sc, tryPop(sc.s, "]"), tryPopString(sc.s, <<"-", "]">>), f)
    IN  scanned(scanMoveAddMove(s, 0))

plantExpr(s, f) ==
    LET added(a) == plantADD(a.s, a.n)
        moved(sc) == plantMoveAddMove(sc.s, sc.mim)
        popped(ch, s1) ==
            IF ch = None THEN [r |-> FALSE, s |-> s1]
            ELSE [r |-> TRUE, s |->
                CASE ch = "+" -> added(scanAdd(s1, 1))
                  [] ch = "-" -> added(scanAdd(s1, -1))
                  [] ch \in {">", "<"} ->
                        moved(scanMoveAddMove(s1, IF ch = ">" THEN 1 ELSE -1))
                  [] ch = "[" ->
                        IF s1.loc_is_zero /\ f.deadCodeRemoval
                        THEN skipDeadCode(s1, 1)
                        ELSE plantLoopHead(s1, f)
                  [] ch = "]" -> plantCLOSE(s1)
                  [] ch = "." -> plantPUT(s1)
                  [] ch = "," -> plantGET(s1)
                  [] OTHER -> s1]
        noted(p) == popped(p.r, p.s)
    IN  noted(popNoted(s))

(* plantProgram, run to its end; it stops short where behaviour is undefined. *)
RECURSIVE plantProgramLoop(_, _)
plantProgramLoop(s, f) ==
    LET planted(e) == IF e.s.undefined THEN e.s
                      ELSE IF e.r THEN plantProgramLoop(e.s, f)
                      ELSE plantOpCode(e.s, InstructionSet.HALT)
    IN  planted(plantExpr(s, f))

plantProgram(source, f) == plantProgramLoop(NewPlanter(source), f)

----------------------------------------------------------------------------
(* The runner: CodePlanter::plantProgram turns the IR file into the        *)
(* vector<Instruction>, and Engine::runFile executes it.                   *)

CellMod == 256      \* typedef unsigned char num
IntMax == 2147483647        \* the largest int of the build
IntMin == -IntMax - 1

(* a + b of two ints leaves the range of int (signed overflow). *)
AddOverflows(a, b) == (b > 0 /\ a > IntMax - b) \/ (b < 0 /\ a < IntMin - b)

(* n * by of two ints, n a cell value, leaves the range of int. *)
MulOverflows(n, by) == n > 0 /\ (by > IntMax \div n \/ by < (IntMin + n - 1) \div n)

OpCodeNames == {"SET_ZERO", "INCR", "DECR", "ADD", "ADD_OFFSET", "XFR_MULTIPLE",
                "LEFT", "RIGHT", "SEEK_LEFT", "SEEK_RIGHT", "MOVE", "OPEN",
                "CLOSE", "GET", "PUT", "HALT"}

(* byName throws for a name that is no opcode. *)
byNameThrows(json) == \E i \in 1..Len(json) : json[i].k = "OpCode" /\ json[i].op \notin OpCodeNames

(* plantProgram of a loader that takes a record with a field it does not   *)
(* know for no instruction at all.                                         *)
RECURSIVE loadRecords_strict(_)
loadRecords_strict(json) ==
    IF json = <<>> THEN <<>>
    ELSE LET i == Head(json)
             slot == IF i.d THEN <<>>
                     ELSE IF i.k = "OpCode" THEN <<OpRec(i.op, FALSE)>>
                     ELSE IF i.k = "Operand" THEN <<OperandRec(i.n, FALSE)>>
                     ELSE IF i.k = "Dyad" THEN <<DyadRec(i.hi, i.lo)>>
                     ELSE <<>>
         IN  slot \o loadRecords_strict(Tail(json))

RECURSIVE loadRecords(_)
loadRecords(json) ==
    IF json = <<>> THEN <<>>
    ELSE LET i == Head(json)
             slot == IF i.k = "OpCode" THEN <<OpRec(i.op, FALSE)>>
                     ELSE IF i.k = "Operand" THEN <<OperandRec(i.n, FALSE)>>
                     ELSE IF i.k = "Dyad" THEN <<DyadRec(i.hi, i.lo)>>
                     ELSE <<>>
         IN  slot \o loadRecords(Tail(json))

loadProgram(json) == Append(loadRecords(json), OpRec("HALT", FALSE))

ZeroTape == [i \in 0..(TapeLen - 1) |-> 0]

NewEngine(program, input) ==
    [program |-> program, memory |-> ZeroTape, pc |-> 0, loc |-> 0,
     cin |-> input, cout |-> <<>>, status |-> "running", steps |-> 0, left |-> FALSE]

OnTape(i) == i \in 0..(TapeLen - 1)
Slot(e, i) == IF i \in 0..(Len(e.program) - 1) THEN e.program[i + 1] ELSE NullRec
Wild(e) == [e EXCEPT !.status = "undefined"]

(* goto *(pc++->opcode): the opcode the next dispatch fetches. *)
Fetch(e) == IF Slot(e, e.pc).k = "OpCode" THEN Slot(e, e.pc).op ELSE "garbage"

(* Each exec operator takes the engine as it was before the dispatch, so   *)
(* the opcode is at pc and its operand, if any, at pc + 1.                 *)
execINCR(e) ==
    IF ~ OnTape(e.loc) THEN Wild(e)
    ELSE [e EXCEPT !.memory[e.loc] = (@ + 1) % CellMod, !.pc = e.pc + 1]

execDECR(e) ==
    IF ~ OnTape(e.loc) THEN Wild(e)
    ELSE [e EXCEPT !.memory[e.loc] = (@ - 1) % CellMod, !.pc = e.pc + 1]

execADD(e) ==
    LET arg == Slot(e, e.pc + 1)
    IN  IF arg.k # "Operand" \/ ~ OnTape(e.loc) THEN Wild(e)
        ELSE IF AddOverflows(e.memory[e.loc], arg.n) THEN Wild(e)
        ELSE [e EXCEPT !.memory[e.loc] = (@ + arg.n) % CellMod, !.pc = e.pc + 2]

execADD_OFFSET(e) ==
    LET d == Slot(e, e.pc + 1)
    IN  IF d.k # "Dyad" \/ ~ OnTape(e.loc + d.hi) THEN Wild(e)
        ELSE IF AddOverflows(e.memory[e.loc + d.hi], d.lo) THEN Wild(e)
        ELSE [e EXCEPT !.memory[e.loc + d.hi] = (@ + d.lo) % CellMod, !.pc = e.pc + 2]

execRIGHT(e) == [e EXCEPT !.loc = @ + 1, !.pc = e.pc + 1]
execLEFT(e) == [e EXCEPT !.loc = @ - 1, !.pc = e.pc + 1]

execMOVE(e) ==
    LET arg == Slot(e, e.pc + 1)
    IN  IF arg.k # "Operand" THEN Wild(e)
        ELSE [e EXCEPT !.loc = @ + arg.n, !.pc = e.pc + 2]

execPUT(e) ==
    IF ~ OnTape(e.loc) THEN Wild(e)
    ELSE [e EXCEPT !.cout = Append(@, e.memory[e.loc]), !.pc = e.pc + 1]

(* GET that clears the cell when the input is exhausted. *)
execGET_clearing(e) ==
    IF ~ OnTape(e.loc) THEN Wild(e)
    ELSE IF e.cin = <<>> THEN [e EXCEPT !.memory[e.loc] = 0, !.pc = e.pc + 1]
    ELSE [e EXCEPT !.memory[e.loc] = Head(e.cin), !.cin = Tail(@), !.pc = e.pc + 1]

execGET(e) ==
    IF e.cin = <<>> THEN [e EXCEPT !.pc = e.pc + 1]
    ELSE IF ~ OnTape(e.loc) THEN Wild(e)
    ELSE [e EXCEPT !.memory[e.loc] = Head(e.cin), !.cin = Tail(@), !.pc = e.pc + 1]

(* OPEN that leaves pc on its operand slot when it does not jump. *)
execOPEN_short(e) ==
    LET arg == Slot(e, e.pc + 1)
    IN  IF arg.k # "Operand" \/ ~ OnTape(e.loc) THEN Wild(e)
        ELSE [e EXCEPT !.pc = IF e.memory[e.loc] = 0 THEN arg.n ELSE e.pc + 1]

execOPEN(e) ==
    LET arg == Slot(e, e.pc + 1)
    IN  IF arg.k # "Operand" \/ ~ OnTape(e.loc) THEN Wild(e)
        ELSE [e EXCEPT !.pc = IF e.memory[e.loc] = 0 THEN arg.n ELSE e.pc + 2]

(* CLOSE that jumps back to the slot before its target. *)
execCLOSE_back(e) ==
    LET arg == Slot(e, e.pc + 1)
    IN  IF arg.k # "Operand" \/ ~ OnTape(e.loc) THEN Wild(e)
        ELSE [e EXCEPT !.pc = IF e.memory[e.loc] # 0 THEN arg.n - 1 ELSE e.pc + 2]


execCLOSE(e) ==
    LET arg == Slot(e, e.pc + 1)
    IN  IF arg.k # "Operand" \/ ~ OnTape(e.loc) THEN Wild(e)
        ELSE [e EXCEPT !.pc = IF e.memory[e.loc] # 0 THEN arg.n ELSE e.pc + 2]

execSET_ZERO(e) ==
    IF ~ OnTape(e.loc) THEN Wild(e)
    ELSE [e EXCEPT !.memory[e.loc] = 0, !.pc = e.pc + 1]

execXFR_MULTIPLE(e) ==
    LET d == Slot(e, e.pc + 1)
    IN  IF d.k # "Dyad" \/ ~ OnTape(e.loc) \/ ~ OnTape(e.loc + d.hi) THEN Wild(e)
        ELSE LET n == e.memory[e.loc]
                 m1 == [e.memory EXCEPT ![e.loc + d.hi] = (@ + n * d.lo) % CellMod]
             IN  IF MulOverflows(n, d.lo) THEN Wild(e)
                 ELSE IF AddOverflows(e.memory[e.loc + d.hi], n * d.lo) THEN Wild(e)
                 ELSE [e EXCEPT !.memory = [m1 EXCEPT ![e.loc] = 0], !.pc = e.pc + 2]

(* The seek that moves before it looks. *)
RECURSIVE seek_stepping(_, _)
seek_stepping(e, dir) ==
    IF ~ OnTape(e.loc) THEN Wild(e)
    ELSE IF ~ OnTape(e.loc + dir) THEN Wild(e)
    ELSE IF e.memory[e.loc + dir] # 0 THEN seek_stepping([e EXCEPT !.loc = @ + dir], dir)
    ELSE [e EXCEPT !.loc = @ + dir, !.pc = e.pc + 1]

RECURSIVE seek(_, _)
seek(e, dir) ==
    IF ~ OnTape(e.loc) THEN Wild(e)
    ELSE IF e.memory[e.loc] # 0 THEN seek([e EXCEPT !.loc = @ + dir], dir)
    ELSE [e EXCEPT !.pc = e.pc + 1]

execSEEK_LEFT(e) == seek(e, -1)
execSEEK_RIGHT(e) == seek(e, 1)

execHALT(e) == [e EXCEPT !.pc = e.pc + 1, !.status = "halted"]

exec(e) ==
    LET op == Fetch(e)
    IN  CASE op = "INCR" -> execINCR(e)
          [] op = "DECR" -> execDECR(e)
          [] op = "ADD" -> execADD(e)
          [] op = "ADD_OFFSET" -> execADD_OFFSET(e)
          [] op = "RIGHT" -> execRIGHT(e)
          [] op = "LEFT" -> execLEFT(e)
          [] op = "MOVE" -> execMOVE(e)
          [] op = "PUT" -> execPUT(e)
          [] op = "GET" -> execGET(e)
          [] op = "OPEN" -> execOPEN(e)
          [] op = "CLOSE" -> execCLOSE(e)
          [] op = "SET_ZERO" -> execSET_ZERO(e)
          [] op = "XFR_MULTIPLE" -> execXFR_MULTIPLE(e)
          [] op = "SEEK_LEFT" -> execSEEK_LEFT(e)
          [] op = "SEEK_RIGHT" -> execSEEK_RIGHT(e)
          [] op = "HALT" -> execHALT(e)
          [] OTHER -> Wild(e)

(* steps counts the instructions executed; left records that loc has been  *)
(* off the tape.                                                           *)
Stepped(e, e1) ==
    IF e1.status = "undefined" THEN e1
    ELSE [e1 EXCEPT !.steps = e.steps + 1, !.left = e.left \/ ~ OnTape(e1.loc)]

(* runFile followed for at most MaxSteps instructions. *)
RECURSIVE runOn(_)
runOn(e) ==
    IF e.status # "running" \/ e.steps >= MaxSteps THEN e
    ELSE runOn(Stepped(e, exec(e)))

runFile(json, input) == runOn(NewEngine(loadProgram(json), input))

----------------------------------------------------------------------------
(* The one-character-at-a-time interpreter of direct_threading_demo.cpp.   *)

naiveOpcode(ch) ==
    CASE ch = "+" -> "INCR" [] ch = "-" -> "DECR" [] ch = "<" -> "LEFT"
      [] ch = ">" -> "RIGHT" [] ch = "[" -> "OPEN" [] ch = "]" -> "CLOSE"
      [] ch = "." -> "PUT" [] ch = "," -> "GET"

(* plantChar; st is [program, indexes, undefined]. *)
naivePlantChar(st, ch) ==
    IF ch \notin Cmds THEN st
    ELSE LET p1 == Append(st.program, OpRec(naiveOpcode(ch), FALSE))
         IN  IF ch = "["
             THEN [st EXCEPT !.program = Append(p1, NullRec),
                             !.indexes = Append(@, Len(p1))]
             ELSE IF ch = "]"
             THEN IF st.indexes = <<>>
                  THEN [st EXCEPT !.program = p1, !.undefined = TRUE]
                  ELSE LET end == Len(p1)
                           start == st.indexes[Len(st.indexes)]
                       IN  [st EXCEPT
                              !.indexes = Take(@, Len(@) - 1),
                              !.program = Append([p1 EXCEPT ![start + 1] = OperandRec(end + 1, FALSE)],
                                                 OperandRec(start + 1, FALSE))]
             ELSE [st EXCEPT !.program = p1]

RECURSIVE naivePlantLoop(_, _)
naivePlantLoop(st, input) ==
    IF st.undefined THEN st
    ELSE IF input = <<>> THEN [st EXCEPT !.program = Append(@, OpRec("HALT", FALSE))]
    ELSE naivePlantLoop(naivePlantChar(st, Head(input)), Tail(input))

naivePlantProgram(source) ==
    naivePlantLoop([program |-> <<>>, indexes |-> <<>>, undefined |-> FALSE], source)

(* An unpatched operand of OPEN is the nullptr dummy, read as 0. *)
naiveOperand(e) ==
    LET arg == Slot(e, e.pc + 1)
    IN  IF arg.k = "Operand" THEN arg.n ELSE 0

naiveExec(e) ==
    LET op == Fetch(e)
        cell == e.memory[e.loc]
    IN  IF op \in {"INCR", "DECR", "PUT", "OPEN", "CLOSE"} /\ ~ OnTape(e.loc) THEN Wild(e)
        ELSE CASE op = "INCR" -> [e EXCEPT !.memory[e.loc] = (@ + 1) % CellMod, !.pc = e.pc + 1]
               [] op = "DECR" -> [e EXCEPT !.memory[e.loc] = (@ - 1) % CellMod, !.pc = e.pc + 1]
               [] op = "RIGHT" -> [e EXCEPT !.loc = @ + 1, !.pc = e.pc + 1]
               [] op = "LEFT" -> [e EXCEPT !.loc = @ - 1, !.pc = e.pc + 1]
               [] op = "PUT" -> [e EXCEPT !.cout = Append(@, cell), !.pc = e.pc + 1]
               [] op = "GET" ->
                    IF e.cin = <<>> THEN [e EXCEPT !.pc = e.pc + 1]
                    ELSE IF ~ OnTape(e.loc) THEN Wild(e)
                    ELSE [e EXCEPT !.memory[e.loc] = Head(e.cin), !.cin = Tail(@), !.pc = e.pc + 1]
               [] op = "OPEN" -> [e EXCEPT !.pc = IF cell = 0 THEN naiveOperand(e) ELSE e.pc + 2]
               [] op = "CLOSE" -> [e EXCEPT !.pc = IF cell # 0 THEN naiveOperand(e) ELSE e.pc + 2]
               [] op = "HALT" -> [e EXCEPT !.pc = e.pc + 1, !.status = "halted"]
               [] OTHER -> Wild(e)

RECURSIVE naiveRunOn(_)
naiveRunOn(e) ==
    IF e.status # "running" \/ e.steps >= MaxSteps THEN e
    ELSE naiveRunOn(Stepped(e, naiveExec(e)))

naiveRunFile(source, input) ==
    LET run(planted) == IF planted.undefined THEN Wild(NewEngine(planted.program, input))
                        ELSE naiveRunOn(NewEngine(planted.program, input))
    IN  run(naivePlantProgram(source))

----------------------------------------------------------------------------
(* The scanner driven on its own, by any caller. *)

NoEngine == [status |-> "absent"]
NoCall == [op |-> "none", arg |-> <<>>, r |-> None]

InitScan ==
    /\ src \in Strings(ScanBytes, MaxScanLen)
    /\ stdin = <<>>
    /\ flags = DefaultFlags
    /\ args = <<>>
    /\ planter = [input |-> src, buffer |-> <<>>]
    /\ cstatus = "scanning"
    /\ last = NoCall
    /\ ir = <<>>
    /\ runner = NoEngine
    /\ naive = NoEngine
    /\ files = <<>>
    /\ ended = <<>>

Called(op, arg, res) ==
    /\ planter' = res.s
    /\ last' = [op |-> op, arg |-> arg, r |-> res.r]
    /\ UNCHANGED <<files, ended, args, src, stdin, flags, cstatus, ir, runner, naive>>

ScanPop == Called("pop", <<>>, pop(planter))
ScanPeek == Called("peek", <<>>, peek(planter))
ScanPeekN == \E n \in 0..MaxPeek : Called("peekN", <<n>>, peekN(planter, n))
ScanTryPop == \E ch \in ScanCmds : Called("tryPop", <<ch>>, tryPop(planter, ch))
ScanTryPopString ==
    \E str \in Strings(ScanCmds, MaxStrLen) \ {<<>>} :
        Called("tryPopString", str, tryPopString(planter, str))

NextScan == ScanPop \/ ScanPeek \/ ScanPeekN \/ ScanTryPop \/ ScanTryPopString

SpecScan == InitScan /\ [][NextScan]_vars

----------------------------------------------------------------------------
(* The compiler process: main() of cisc_compiler_demo.cpp. *)

InitLiftWith(sources, settings) ==
    /\ src \in sources
    /\ stdin = <<>>
    /\ flags \in settings
    /\ args = ArgsFor(flags)
    /\ planter = NewPlanter(src)
    /\ cstatus = "planting"
    /\ last = NoCall
    /\ ir = <<>>
    /\ runner = NoEngine
    /\ naive = NoEngine
    /\ files = <<>>
    /\ ended = <<>>

(* One turn of the loop of plantProgram in which plantExpr returns true. *)
PlantExpr ==
    /\ cstatus = "planting"
    /\ \E e \in {plantExpr(planter, flags)} :
           /\ e.r
           /\ planter' = e.s
           /\ cstatus' = IF e.s.undefined THEN "undefined" ELSE "planting"
    /\ UNCHANGED <<files, ended, args, src, stdin, flags, last, ir, runner, naive>>

(* The last turn: plantExpr returns false and HALT is planted. *)
PlantHalt ==
    /\ cstatus = "planting"
    /\ \E e \in {plantExpr(planter, flags)} :
           /\ ~ e.r
           /\ planter' = plantOpCode(e.s, InstructionSet.HALT)
    /\ cstatus' = "planted"
    /\ UNCHANGED <<files, ended, args, src, stdin, flags, last, ir, runner, naive>>

(* std::cout << program.dump(4); exit( EXIT_SUCCESS ) *)
Dump ==
    /\ cstatus = "planted"
    /\ ir' = planter.program
    /\ cstatus' = "exited"
    /\ UNCHANGED <<files, ended, args, src, stdin, flags, planter, last, runner, naive>>

(* indexes.back() and pop_back() on an empty vector: the process may die,  *)
(* or go on in a way nothing is known about.                               *)
UndefinedCrash ==
    /\ cstatus = "undefined"
    /\ cstatus' = "crashed"
    /\ UNCHANGED <<files, ended, args, src, stdin, flags, planter, last, ir, runner, naive>>

UndefinedOn ==
    /\ cstatus = "undefined"
    /\ cstatus' = "astray"
    /\ UNCHANGED <<files, ended, args, src, stdin, flags, planter, last, ir, runner, naive>>

LiftSources == Strings(Bytes, MaxSrcLen) \cup Embedded(Strings(Bytes, MaxPrefixLen))

InitLift == InitLiftWith(LiftSources, AllFlags)

NextLift == PlantExpr \/ PlantHalt \/ Dump \/ UndefinedCrash \/ UndefinedOn
SpecLift == InitLift /\ [][NextLift]_vars

----------------------------------------------------------------------------
(* The compiler process when it is scheduled: a step it can take is taken.  *)
(* The sources are the short ones, compiled with every flag on and under   *)
(* `--none`.                                                               *)
MaxTermLen == 3     \* longest source the scheduled compiler is given
TermFlags == {DefaultFlags, setAll(DefaultFlags, FALSE)}

InitTerm == InitLiftWith(Strings(Cmds, MaxTermLen), TermFlags)

(* A turn of the loop of plantProgram: while the compiler is planting, one *)
(* of PlantExpr and PlantHalt can be taken, whatever the scanner holds.    *)
PlantTurn == PlantExpr \/ PlantHalt

(* Weak fairness of PlantTurn, with the condition that enables it written  *)
(* as the guard the two actions share.                                     *)
PlantTurnTaken == []<>(cstatus # "planting") \/ []<><<PlantTurn>>_vars

SpecLiftFair ==
    /\ InitTerm
    /\ [][NextLift]_vars
    /\ PlantTurnTaken
    /\ WF_vars(Dump)
    /\ WF_vars(UndefinedCrash \/ UndefinedOn)

----------------------------------------------------------------------------

(* Compile, then run the IR; the direct-threading interpreter is run on    *)
(* the same source and input afterwards.                                   *)

InBytes == {0, 1, 5, 255}

(* The inputs a source is run on: no longer than the number of `,` it      *)
(* holds, bytes past that being read only by a `,` inside a loop.          *)
Reads(s) == Cardinality({i \in DOMAIN s : s[i] = ","})
Inputs(s) == Strings(InBytes, IF Reads(s) < MaxInLen THEN Reads(s) ELSE MaxInLen)

RunSources ==
    {s \in Strings(Cmds, MaxRunLen) \cup Embedded(Strings(Cmds, MaxPrefixLen)) : Balanced(s, 0)}

(* The settings a source is run with: unplantSuperfluousCode, which       *)
(* nothing reads, as it is by default.                                     *)
RunFlags == {f \in AllFlags : f.unplantSuperfluousCode}

InitRun ==
    /\ src \in RunSources
    /\ stdin \in Inputs(src)
    /\ flags \in RunFlags
    /\ args = ArgsFor(flags)
    /\ planter = NewPlanter(src)
    /\ cstatus = "planting"
    /\ last = NoCall
    /\ ir = <<>>
    /\ runner = NoEngine
    /\ naive = NoEngine
    /\ files = <<>>
    /\ ended = <<>>

(* CodePlanter::plantProgram of the runner, at the start of runFile. *)
Load ==
    /\ cstatus \in {"exited", "absent"}
    /\ runner = NoEngine
    /\ runner' = IF byNameThrows(ir) THEN [status |-> "load_error"]
                 ELSE NewEngine(loadProgram(ir), stdin)
    /\ UNCHANGED <<files, ended, args, src, stdin, flags, planter, cstatus, last, ir, naive>>

Run(op, e1) ==
    /\ runner.status = "running"
    /\ runner.steps < MaxSteps
    /\ Fetch(runner) = op
    /\ runner' = Stepped(runner, e1)
    /\ UNCHANGED <<files, ended, args, src, stdin, flags, planter, cstatus, last, ir, naive>>

INCR == Run("INCR", execINCR(runner))
DECR == Run("DECR", execDECR(runner))
ADD == Run("ADD", execADD(runner))
ADD_OFFSET == Run("ADD_OFFSET", execADD_OFFSET(runner))
RIGHT == Run("RIGHT", execRIGHT(runner))
LEFT == Run("LEFT", execLEFT(runner))
MOVE == Run("MOVE", execMOVE(runner))
PUT == Run("PUT", execPUT(runner))
GET == Run("GET", execGET(runner))
OPEN == Run("OPEN", execOPEN(runner))
CLOSE == Run("CLOSE", execCLOSE(runner))
SET_ZERO == Run("SET_ZERO", execSET_ZERO(runner))
XFR_MULTIPLE == Run("XFR_MULTIPLE", execXFR_MULTIPLE(runner))
SEEK_LEFT == Run("SEEK_LEFT", execSEEK_LEFT(runner))
SEEK_RIGHT == Run("SEEK_RIGHT", execSEEK_RIGHT(runner))
HALT == Run("HALT", execHALT(runner))

(* An access outside the tape: the process may die, or go on in a way      *)
(* nothing is known about.                                                 *)
StrayCrash ==
    /\ runner.status = "undefined"
    /\ runner' = [runner EXCEPT !.status = "crashed"]
    /\ UNCHANGED <<files, ended, args, src, stdin, flags, planter, cstatus, last, ir, naive>>

StrayOn ==
    /\ runner.status = "undefined"
    /\ runner' = [runner EXCEPT !.status = "astray"]
    /\ UNCHANGED <<files, ended, args, src, stdin, flags, planter, cstatus, last, ir, naive>>

RunnerOver ==
    \/ runner.status \in {"halted", "crashed", "astray", "load_error"}
    \/ runner.status = "running" /\ runner.steps >= MaxSteps

NaiveRun ==
    /\ RunnerOver
    /\ naive = NoEngine
    /\ naive' = naiveRunFile(src, stdin)
    /\ UNCHANGED <<files, ended, args, src, stdin, flags, planter, cstatus, last, ir, runner>>

NextRun ==
    \/ PlantExpr \/ PlantHalt \/ Dump \/ Load
    \/ INCR \/ DECR \/ ADD \/ ADD_OFFSET \/ RIGHT \/ LEFT \/ MOVE \/ PUT \/ GET
    \/ OPEN \/ CLOSE \/ SET_ZERO \/ XFR_MULTIPLE \/ SEEK_LEFT \/ SEEK_RIGHT \/ HALT
    \/ StrayCrash \/ StrayOn \/ NaiveRun

SpecRun == InitRun /\ [][NextRun]_vars

----------------------------------------------------------------------------
(* The runner on an IR file of any producer: main() of the runner with one *)
(* argument.  There is no compiler process (cstatus is "absent").          *)

Plain == {"INCR", "DECR", "RIGHT", "LEFT", "PUT", "GET", "SET_ZERO",
          "SEEK_LEFT", "SEEK_RIGHT"}
AddOperands == {-3, IntMax}
MoveOperands == {2, -1}
Dyads == {DyadRec(1, 2), DyadRec(-1, -1), DyadRec(1, IntMax)}
Targets == {0, 3}

(* The records of one instruction as the IR file holds them, and two       *)
(* records no instruction has: one with none of the keys, and an OpCode    *)
(* with a name the instruction set lacks.                                  *)
Written ==
    {<<OpRec(op, FALSE)>> : op \in Plain}
    \cup {<<OpRec("ADD", FALSE), OperandRec(n, FALSE)>> : n \in AddOperands}
    \cup {<<OpRec("MOVE", FALSE), OperandRec(n, FALSE)>> : n \in MoveOperands}
    \cup {<<OpRec(op, FALSE), d>> : op \in {"ADD_OFFSET", "XFR_MULTIPLE"}, d \in Dyads}
    \cup {<<OpRec(op, FALSE), OperandRec(n, FALSE)>> : op \in {"OPEN", "CLOSE"}, n \in Targets}
    \cup {<<NullRec>>, <<OpRec("BOGUS", FALSE)>>}

RECURSIVE Flat(_)
Flat(ss) == IF ss = <<>> THEN <<>> ELSE Head(ss) \o Flat(Tail(ss))

(* The IR files of at most n of the instructions of Written. *)
EnginePrograms(n) == {Flat(ss) : ss \in Strings(Written, n)}

Gets(json) == Cardinality({i \in DOMAIN json : json[i].k = "OpCode" /\ json[i].op = "GET"})
EngineBytes == {0, 5}
EngineInputs(json) == Strings(EngineBytes, IF Gets(json) < MaxInLen THEN Gets(json) ELSE MaxInLen)

InitEngine ==
    /\ src = <<>>
    /\ ir \in EnginePrograms(MaxProgLen)
    /\ stdin \in EngineInputs(ir)
    /\ flags = DefaultFlags
    /\ args = <<>>
    /\ planter = NewPlanter(src)
    /\ cstatus = "absent"
    /\ last = NoCall
    /\ runner = NoEngine
    /\ naive = NoEngine
    /\ files = <<>>
    /\ ended = <<>>

NextEngine ==
    \/ Load
    \/ INCR \/ DECR \/ ADD \/ ADD_OFFSET \/ RIGHT \/ LEFT \/ MOVE \/ PUT \/ GET
    \/ OPEN \/ CLOSE \/ SET_ZERO \/ XFR_MULTIPLE \/ SEEK_LEFT \/ SEEK_RIGHT \/ HALT
    \/ StrayCrash \/ StrayOn

SpecEngine == InitEngine /\ [][NextEngine]_vars

----------------------------------------------------------------------------
(* The compiler process from its command line: main() constructs the       *)
(* CompileFlags from argv before the CodePlanter is given std::cin.        *)

Features == {"deadcode", "seekzero", "prune-if-loc-is-zero", "xfrmultiple", "superfluous"}
Names == Features \cup {"all", "none", "bogus"}
Args == {Arg(nos, name) : nos \in Strings({"no-"}, 2), name \in Names} \cup {EndOfFlags}
FlagSources == {<<>>, <<"+">>, <<"[", ">", "]">>, <<"]">>}

InitFlags ==
    /\ args \in Strings(Args, MaxArgs)
    /\ src \in FlagSources
    /\ stdin = <<>>
    /\ flags = DefaultFlags
    /\ planter = NewPlanter(src)
    /\ cstatus = "starting"
    /\ last = NoCall
    /\ ir = <<>>
    /\ runner = NoEngine
    /\ naive = NoEngine
    /\ files = <<>>
    /\ ended = <<>>

(* CompileFlags flags( args ): nothing catches what setArg throws, so the  *)
(* process is terminated.                                                  *)
ParseFlags ==
    /\ cstatus = "starting"
    /\ \E r \in {CompileFlags(args)} :
           /\ flags' = r.f
           /\ cstatus' = IF r.thrown THEN "aborted" ELSE "planting"
    /\ UNCHANGED <<files, ended, args, src, stdin, planter, last, ir, runner, naive>>

NextFlags == ParseFlags \/ PlantExpr \/ PlantHalt \/ Dump \/ UndefinedCrash \/ UndefinedOn
SpecFlags == InitFlags /\ [][NextFlags]_vars

----------------------------------------------------------------------------
(* The runner given any number of IR files: the loop of main() makes an    *)
(* Engine for each argument in turn and calls its runFile.                 *)

FilePrograms ==
    { <<>>,
      <<OpRec("INCR", FALSE), OpRec("PUT", FALSE)>>,
      <<OpRec("GET", FALSE), OpRec("PUT", FALSE)>>,
      <<OpRec("RIGHT", FALSE), OpRec("INCR", FALSE), OpRec("PUT", FALSE)>>,
      <<OpRec("HALT", FALSE), OpRec("INCR", FALSE)>>,
      <<OpRec("LEFT", FALSE), OpRec("INCR", FALSE)>>,
      <<OpRec("BOGUS", FALSE)>> }

RECURSIVE GetsOf(_)
GetsOf(fs) == IF fs = <<>> THEN 0 ELSE Gets(Head(fs)) + GetsOf(Tail(fs))
FileInputs(fs) == Strings(EngineBytes, IF GetsOf(fs) < MaxInLen THEN GetsOf(fs) ELSE MaxInLen)

InitMulti ==
    /\ files \in Strings(FilePrograms, MaxFiles)
    /\ stdin \in FileInputs(files)
    /\ ended = <<>>
    /\ src = <<>>
    /\ flags = DefaultFlags
    /\ args = <<>>
    /\ planter = NewPlanter(src)
    /\ cstatus = "absent"
    /\ last = NoCall
    /\ ir = <<>>
    /\ runner = NoEngine
    /\ naive = NoEngine

(* runFile up to its first dispatch, with what is left of std::cin, that   *)
(* starts again at the first byte of the input.                            *)
startFile_rewound(json, input) ==
    IF byNameThrows(json) THEN [status |-> "load_error"]
    ELSE NewEngine(loadProgram(json), stdin)

(* Engine engine; engine.runFile( arg, ... ) up to its first dispatch,     *)
(* with what is left of std::cin.                                          *)
startFile(json, input) ==
    IF byNameThrows(json) THEN [status |-> "load_error"]
    ELSE NewEngine(loadProgram(json), input)

(* The next turn of the loop of main(): the first, or the one after a      *)
(* runFile that has returned.                                              *)
RunFile ==
    /\ cstatus = "absent"
    /\ \/ /\ runner = NoEngine
          /\ files # <<>>
          /\ ended' = ended
          /\ ir' = files[1]
          /\ runner' = startFile(files[1], stdin)
       \/ /\ runner.status = "halted"
          /\ Len(ended) + 1 < Len(files)
          /\ ended' = Append(ended, runner)
          /\ ir' = files[Len(ended) + 2]
          /\ runner' = startFile(files[Len(ended) + 2], runner.cin)
    /\ UNCHANGED <<files, args, src, stdin, flags, planter, cstatus, last, naive>>

(* exit( EXIT_SUCCESS ) after the last turn. *)
Exit ==
    /\ cstatus = "absent"
    /\ \/ /\ runner = NoEngine
          /\ files = <<>>
          /\ ended' = ended
       \/ /\ runner.status = "halted"
          /\ Len(ended) + 1 = Len(files)
          /\ ended' = Append(ended, runner)
    /\ runner' = [status |-> "exited"]
    /\ UNCHANGED <<files, args, src, stdin, flags, planter, cstatus, last, ir, naive>>

NextMulti ==
    \/ RunFile \/ Exit
    \/ INCR \/ RIGHT \/ LEFT \/ PUT \/ GET \/ HALT
    \/ StrayCrash \/ StrayOn

(* The process keeps running: a step that can be taken is taken. *)
SpecMulti == InitMulti /\ [][NextMulti]_vars /\ WF_vars(NextMulti)



----------------------------------------------------------------------------
(* The runner of the extended dialect (brainforth): the IR file is an      *)
(* object of named procedures, ir[name] the records of the procedure name. *)
(* A pointer to an Instruction is the name of a procedure and an index     *)
(* into its vector: proc and pc of the Engine, program being the vector    *)
(* bindings[proc].  stack is the index into data_stack the pointer stack   *)
(* is at.                                                                  *)

MaxMainLen == 4     \* most instructions of main before its HALT
StackLen == 2       \* std::vector< num > data_stack( 30000 )

RefRec(name) == [k |-> "Ref", op |-> name, n |-> 0, hi |-> 0, lo |-> 0, d |-> FALSE]

ForthOpCodeNames == OpCodeNames \cup {"PUSH", "POP", "SAVE", "RESTORE", "CALL", "RETURN"}

(* byName throws for a name that is no opcode of the extended dialect. *)
forthByNameThrows(json) ==
    \E name \in DOMAIN json : \E i \in 1..Len(json[name]) :
        json[name][i].k = "OpCode" /\ json[name][i].op \notin ForthOpCodeNames

(* The names the Ref records of the file hold. *)
RefNames(json) ==
    UNION {{json[name][i].op : i \in {j \in 1..Len(json[name]) : json[name][j].k = "Ref"}} :
              name \in DOMAIN json}

(* The vector of one procedure: a Ref record is the slot that the backfill *)
(* points at the vector of the name it holds.                              *)
RECURSIVE forthRecords(_)
forthRecords(jcode) ==
    IF jcode = <<>> THEN <<>>
    ELSE LET i == Head(jcode)
             slot == IF i.k = "OpCode" THEN <<OpRec(i.op, FALSE)>>
                     ELSE IF i.k = "Operand" THEN <<OperandRec(i.n, FALSE)>>
                     ELSE IF i.k = "Dyad" THEN <<DyadRec(i.hi, i.lo)>>
                     ELSE IF i.k = "Ref" THEN <<RefRec(i.op)>>
                     ELSE <<>>
         IN  slot \o forthRecords(Tail(jcode))

(* The bindings after plantProgram and bindings["main"] of runFile: a name *)
(* that only a Ref record or runFile asks for is bound to an empty vector. *)
forthBindings(json) ==
    [name \in DOMAIN json \cup RefNames(json) \cup {"main"} |->
        IF name \in DOMAIN json THEN forthRecords(json[name]) ELSE <<>>]

ZeroStack == [i \in 0..(StackLen - 1) |-> 0]

ReturnAddress(proc, pc) ==
    [kind |-> "return_address", proc |-> proc, pc |-> pc, saved |-> 0, location |-> 0]
SavedLocation(saved, location) ==
    [kind |-> "saved_location", proc |-> "", pc |-> 0, saved |-> saved, location |-> location]

(* runFile of the extended dialect up to its first dispatch. *)
NewForthEngine(bindings, input) ==
    [program |-> bindings["main"], memory |-> ZeroTape, pc |-> 0, loc |-> 0,
     cin |-> input, cout |-> <<>>, status |-> "running", steps |-> 0, left |-> FALSE,
     bindings |-> bindings, proc |-> "main",
     data_stack |-> ZeroStack, stack |-> 0, call_stack |-> <<>>]

startForth(json, input) ==
    IF forthByNameThrows(json) THEN [status |-> "load_error"]
    ELSE NewForthEngine(forthBindings(json), input)

execPUSH(e) ==
    IF ~ OnTape(e.loc) \/ e.stack \notin 0..(StackLen - 1) THEN Wild(e)
    ELSE [e EXCEPT !.data_stack[e.stack] = e.memory[e.loc], !.stack = e.stack + 1,
                   !.pc = e.pc + 1]

(* --stack below data_stack[0] and the read through it are undefined. *)
execPOP(e) ==
    IF ~ OnTape(e.loc) \/ (e.stack - 1) \notin 0..(StackLen - 1) THEN Wild(e)
    ELSE [e EXCEPT !.memory[e.loc] = e.data_stack[e.stack - 1], !.stack = e.stack - 1,
                   !.pc = e.pc + 1]

(* CALL that leaves the address of its Ref operand as the return address. *)
execCALL_short(e) ==
    LET ref == Slot(e, e.pc + 1)
    IN  IF ref.k # "Ref" THEN Wild(e)
        ELSE [e EXCEPT !.call_stack = Append(@, ReturnAddress(e.proc, e.pc + 1)),
                       !.proc = ref.op, !.program = e.bindings[ref.op], !.pc = 0]

execCALL(e) ==
    LET ref == Slot(e, e.pc + 1)
    IN  IF ref.k # "Ref" THEN Wild(e)
        ELSE [e EXCEPT !.call_stack = Append(@, ReturnAddress(e.proc, e.pc + 2)),
                       !.proc = ref.op, !.program = e.bindings[ref.op], !.pc = 0]

(* back() of an empty vector, and the read of the member of the union that *)
(* was not the one written, are undefined.                                 *)
execRETURN(e) ==
    IF e.call_stack = <<>> THEN Wild(e)
    ELSE LET top == e.call_stack[Len(e.call_stack)]
         IN  IF top.kind # "return_address" THEN Wild(e)
             ELSE [e EXCEPT !.proc = top.proc, !.program = e.bindings[top.proc],
                            !.pc = top.pc,
                            !.call_stack = Take(@, Len(@) - 1)]

execSAVE(e) ==
    IF ~ OnTape(e.loc) THEN Wild(e)
    ELSE [e EXCEPT !.call_stack = Append(@, SavedLocation(e.memory[e.loc], e.loc)),
                   !.memory[e.loc] = 0, !.pc = e.pc + 1]

(* RESTORE that writes the saved value to the cell loc is at. *)
execRESTORE_here(e) ==
    IF e.call_stack = <<>> THEN Wild(e)
    ELSE LET top == e.call_stack[Len(e.call_stack)]
         IN  IF top.kind # "saved_location" \/ ~ OnTape(e.loc) THEN Wild(e)
             ELSE [e EXCEPT !.memory[e.loc] = top.saved,
                            !.call_stack = Take(@, Len(@) - 1), !.pc = e.pc + 1]

execRESTORE(e) ==
    IF e.call_stack = <<>> THEN Wild(e)
    ELSE LET top == e.call_stack[Len(e.call_stack)]
         IN  IF top.kind # "saved_location" THEN Wild(e)
             ELSE [e EXCEPT !.memory[top.location] = top.saved,
                            !.call_stack = Take(@, Len(@) - 1), !.pc = e.pc + 1]

(* The instructions main is made of, and the procedure p it calls. *)
ForthWritten ==
    {<<OpRec(op, FALSE)>> : op \in {"INCR", "RIGHT", "PUSH", "POP", "SAVE", "RESTORE", "RETURN"}}
        \cup {<<OpRec("CALL", FALSE), RefRec("p")>>}

ForthMains(n) == {Append(Flat(ss), OpRec("HALT", FALSE)) : ss \in Strings(ForthWritten, n)}

ForthProcedures ==
    { <<OpRec("RETURN", FALSE)>>,
      <<OpRec("INCR", FALSE)>>,
      <<OpRec("INCR", FALSE), OpRec("PUSH", FALSE), OpRec("INCR", FALSE), OpRec("PUSH", FALSE),
        OpRec("RIGHT", FALSE), OpRec("RETURN", FALSE)>>,
      <<OpRec("RIGHT", FALSE), OpRec("INCR", FALSE), OpRec("SAVE", FALSE), OpRec("LEFT", FALSE),
        OpRec("INCR", FALSE), OpRec("INCR", FALSE), OpRec("RESTORE", FALSE),
        OpRec("RETURN", FALSE)>>,
      <<OpRec("CALL", FALSE), RefRec("q"), OpRec("RIGHT", FALSE), OpRec("CALL", FALSE),
        RefRec("q"), OpRec("RETURN", FALSE)>>,
      <<OpRec("BOGUS", FALSE)>> }

ForthQ == <<OpRec("INCR", FALSE), OpRec("RETURN", FALSE)>>

(* The IR files: main with p and q, main alone, and a file with no main. *)
ForthFiles(n) ==
    {[main |-> m, p |-> p, q |-> ForthQ] : m \in ForthMains(n), p \in ForthProcedures}
        \cup {[main |-> m] : m \in ForthMains(n)}
        \cup {[p |-> p] : p \in ForthProcedures}

InitForth ==
    /\ ir \in ForthFiles(MaxMainLen)
    /\ stdin = <<>>
    /\ src = <<>>
    /\ flags = DefaultFlags
    /\ args = <<>>
    /\ planter = NewPlanter(src)
    /\ cstatus = "absent"
    /\ last = NoCall
    /\ runner = NoEngine
    /\ naive = NoEngine
    /\ files = <<>>
    /\ ended = <<>>

(* CodePlanter::plantProgram of the extended dialect and the set-up of     *)
(* runFile.                                                                *)
ForthLoad ==
    /\ cstatus = "absent"
    /\ runner = NoEngine
    /\ runner' = startForth(ir, stdin)
    /\ UNCHANGED <<files, ended, args, src, stdin, flags, planter, cstatus, last, ir, naive>>

PUSH == Run("PUSH", execPUSH(runner))
POP == Run("POP", execPOP(runner))
CALL == Run("CALL", execCALL(runner))
RETURN == Run("RETURN", execRETURN(runner))
SAVE == Run("SAVE", execSAVE(runner))
RESTORE == Run("RESTORE", execRESTORE(runner))

(* goto *(pc++->opcode) where no opcode is: past the end of a vector, or   *)
(* at the data() of an empty one.                                          *)
StrayDispatch ==
    /\ runner.status = "running"
    /\ Fetch(runner) = "garbage"
    /\ runner' = Wild(runner)
    /\ UNCHANGED <<files, ended, args, src, stdin, flags, planter, cstatus, last, ir, naive>>

NextForth ==
    \/ ForthLoad
    \/ PUSH \/ POP \/ CALL \/ RETURN \/ SAVE \/ RESTORE
    \/ INCR \/ RIGHT \/ LEFT \/ HALT
    \/ StrayDispatch \/ StrayCrash \/ StrayOn

SpecForth == InitForth /\ [][NextForth]_vars

----------------------------------------------------------------------------
(* One loop on any tape: the loop is compiled after a `,` that finds the   *)
(* input empty and so leaves the tape as it is, and the Engine of the      *)
(* runner and that of the direct-threading interpreter both start on the   *)
(* same tape and loc.                                                      *)

MaxLoopSteps == 1100    \* most instructions the interpreter is followed for
CellValues == {0, 1, 2, 255}

IdiomLoops ==
    { <<"[", "-", "]">>, <<"[", "+", "]">>, <<"[", ">", "]">>, <<"[", "<", "]">>,
      <<"[", ">", "+", "<", "-", "]">>, <<"[", "<", "+", ">", "-", "]">>,
      <<"[", ">", "-", "<", "-", "]">>, <<"[", ">", "+", "-", "<", "-", "]">>,
      <<"[", ">", "+", "+", "<", "-", "]">>, <<"[", "<", "<", "-", "-", "-", ">", ">", "-", "]">> }

(* The Engine with the tape and loc an earlier part of a program left. *)
EngineAt(program, input, tape, loc) ==
    [NewEngine(program, input) EXCEPT !.memory = tape, !.loc = loc]

InitIdiom ==
    /\ src \in {<<",">> \o l : l \in IdiomLoops}
    /\ stdin = <<>>
    /\ flags = DefaultFlags
    /\ args = <<>>
    /\ planter = NewPlanter(src)
    /\ cstatus = "planting"
    /\ last = NoCall
    /\ ir = <<>>
    /\ runner = NoEngine
    /\ naive \in {EngineAt(naivePlantProgram(src).program, stdin, tape, loc) :
                     tape \in [0..(TapeLen - 1) -> CellValues], loc \in 0..(TapeLen - 1)}
    /\ files = <<>>
    /\ ended = <<>>

(* The runner at its first dispatch, on the tape the interpreter is on. *)
LoadIdiom ==
    /\ cstatus = "exited"
    /\ runner = NoEngine
    /\ naive.steps = 0
    /\ runner' = EngineAt(loadProgram(ir), stdin, naive.memory, naive.loc)
    /\ UNCHANGED <<files, ended, args, src, stdin, flags, planter, cstatus, last, ir, naive>>

(* The interpreter followed until it has executed limit instructions. *)
RECURSIVE naiveRunTo(_, _)
naiveRunTo(e, limit) ==
    IF e.status # "running" \/ e.steps >= limit THEN e
    ELSE naiveRunTo(Stepped(e, naiveExec(e)), limit)

(* The interpreter goes on for MaxSteps instructions more. *)
NaiveOn ==
    /\ RunnerOver
    /\ naive.status = "running"
    /\ naive.steps < MaxLoopSteps
    /\ naive' = naiveRunTo(naive, naive.steps + MaxSteps)
    /\ UNCHANGED <<files, ended, args, src, stdin, flags, planter, cstatus, last, ir, runner>>

NextIdiom ==
    \/ PlantExpr \/ PlantHalt \/ Dump \/ LoadIdiom
    \/ GET \/ SET_ZERO \/ XFR_MULTIPLE \/ SEEK_LEFT \/ SEEK_RIGHT \/ HALT
    \/ StrayCrash \/ StrayOn \/ NaiveOn

SpecIdiom == InitIdiom /\ [][NextIdiom]_vars

----------------------------------------------------------------------------
(* Compile a run of moves, adds and writes, then run its IR.  The sources  *)
(* hold no bracket, so the flags decide nothing and are the default ones.  *)

MaxWindowLen == 5   \* longest source of moves, adds and writes
WindowCmds == {">", "<", "+", "-", "."}
WindowSources == Strings(WindowCmds, MaxWindowLen)

InitWindow == InitLiftWith(WindowSources, {DefaultFlags})

NextWindow ==
    \/ PlantExpr \/ PlantHalt \/ Dump \/ Load
    \/ INCR \/ DECR \/ ADD \/ ADD_OFFSET \/ RIGHT \/ LEFT \/ MOVE \/ PUT \/ HALT
    \/ StrayCrash \/ StrayOn

SpecWindow == InitWindow /\ [][NextWindow]_vars

----------------------------------------------------------------------------

(* Properties of the scanner *)

IsPrefix(p, s) == Len(p) <= Len(s) /\ Take(s, Len(p)) = p

(* C9: tryPopString(s) is all-or-nothing.  If the next |s| command         *)
(* characters are s it removes exactly those and returns true; otherwise   *)
(* it returns false and what pop() returns from then on is what it would   *)
(* have been without the call.                                             *)
C9_TryPopStringAllOrNothing ==
    [][last'.op = "tryPopString" =>
         LET str == last'.arg
             before == CmdStream(planter)
             after == CmdStream(planter')
         IN  IF IsPrefix(str, before)
             THEN last'.r = TRUE /\ after = Drop(before, Len(str))
             ELSE last'.r = FALSE /\ after = before]_vars

(* A two-character string whose first character matched and whose second  *)
(* did not: the matched character is still queued.                         *)
C9_Witness ==
    /\ last.op = "tryPopString"
    /\ last.r = FALSE
    /\ Len(last.arg) = 2
    /\ planter.buffer # <<>>
    /\ planter.buffer[1] = last.arg[1]

----------------------------------------------------------------------------
(* Properties of the emitted IR *)

IsOp(rec, name) == rec.k = "OpCode" /\ rec.op = name

(* OPEN/CLOSE pairing of an IR, found by a scan with a stack of the        *)
(* (1-based) positions of the OPEN records, independent of the operands.   *)
RECURSIVE PairsFrom(_, _, _)
PairsFrom(p, i, stack) ==
    IF i > Len(p) THEN IF stack = <<>> THEN {} ELSE {<<0, 0>>}
    ELSE IF IsOp(p[i], "OPEN") THEN PairsFrom(p, i + 1, <<i>> \o stack)
    ELSE IF IsOp(p[i], "CLOSE")
         THEN IF stack = <<>> THEN {<<0, 0>>}
              ELSE {<<Head(stack), i>>} \cup PairsFrom(p, i + 1, Tail(stack))
    ELSE PairsFrom(p, i + 1, stack)

Pairs(p) == PairsFrom(p, 1, <<>>)

(* With 0-based slots, OPEN at o-1 has its operand at o and CLOSE at c-1   *)
(* has its operand at c.                                                   *)
WellPaired(p) ==
    /\ <<0, 0>> \notin Pairs(p)
    /\ \A pr \in Pairs(p) :
          LET o == pr[1]
              c == pr[2]
          IN  /\ c + 1 <= Len(p)
              /\ p[o + 1] = OperandRec(c + 1, FALSE)
              /\ p[c + 1] = OperandRec(o + 1, FALSE)

(* C3: in the IR emitted for a bracket-balanced source, under any flags,   *)
(* the OPENs and CLOSEs pair up properly nested, OPEN's operand is the     *)
(* index of the slot after its CLOSE's operand and CLOSE's operand is the  *)
(* index of the slot after its OPEN's operand.                             *)
C3_OpenCloseTargets ==
    (cstatus = "exited" /\ Balanced(src, 0)) => WellPaired(ir)

(* A loop inside a loop has been emitted. *)
C3_Witness ==
    /\ cstatus = "exited"
    /\ Balanced(src, 0)
    /\ \E a, b \in Pairs(ir) : a[1] < b[1] /\ b[2] < a[2]

(* C4: lifting a source with an unmatched bracket ends in a reported       *)
(* error and writes no IR.                                                 *)
C4_UnmatchedIsAnError ==
    ~ Balanced(src, 0) => (cstatus # "exited" /\ ir = <<>>)

(* C7: the emitted IR holds exactly one HALT opcode record, and it is the  *)
(* last record.                                                            *)
C7_HaltOnceAndLast ==
    cstatus = "exited" =>
        /\ ir # <<>>
        /\ IsOp(ir[Len(ir)], "HALT")
        /\ Cardinality({i \in 1..Len(ir) : IsOp(ir[i], "HALT")}) = 1

(* An IR with a PUT and a loop has been written. *)
C7_Witness ==
    /\ cstatus = "exited"
    /\ \E i, j \in 1..Len(ir) : IsOp(ir[i], "PUT") /\ IsOp(ir[j], "CLOSE")

(* C8: every ADD_OFFSET and XFR_MULTIPLE record is followed by a dyad      *)
(* whose offset is not 0.                                                  *)
C8_OffsetNonZero ==
    \A i \in 1..Len(planter.program) :
        (IsOp(planter.program[i], "ADD_OFFSET") \/ IsOp(planter.program[i], "XFR_MULTIPLE"))
        => /\ i < Len(planter.program)
           /\ planter.program[i + 1].k = "Dyad"
           /\ planter.program[i + 1].hi # 0

(* A move has been split off and the rest folded into an ADD_OFFSET with a *)
(* negative offset.                                                        *)
C8_Witness ==
    \E i \in 2..Len(planter.program) :
        /\ IsOp(planter.program[i], "ADD_OFFSET")
        /\ IsOp(planter.program[i - 1], "LEFT")
        /\ planter.program[i + 1].hi < 0

(* C10: bytes that are no commands never influence lifting.  The IR for a  *)
(* source is the IR for the source with those bytes deleted, and no such   *)
(* byte is handed to the planter or queued in the buffer.                  *)
C10_CommentsIgnored ==
    /\ cstatus = "exited" => ir = plantProgram(Strip(src), flags).program
    /\ planter.seen \subseteq (Cmds \cup {None})
    /\ Range(planter.buffer) \subseteq Cmds

(* A source with comment bytes between the characters of an idiom has been *)
(* lifted to that idiom.                                                   *)
C10_Witness ==
    /\ cstatus = "exited"
    /\ \E i \in 2..(Len(src) - 1) :
          src[i] = Comment /\ src[i - 1] = "[" /\ src[i + 1] = "-"
    /\ \E i \in 1..Len(ir) : IsOp(ir[i], "SET_ZERO")

----------------------------------------------------------------------------
(* Properties of compiling and then running *)

(* C1: when the one-character-at-a-time interpreter halts on a balanced    *)
(* source without leaving the tape, the IR lifted with the default flags   *)
(* also halts in the runner and writes the same bytes.                     *)
C1_LiftedRunEqualsNaive ==
    (naive # NoEngine /\ flags = DefaultFlags /\ naive.status = "halted" /\ ~ naive.left)
        => (runner.status = "halted" /\ runner.cout = naive.cout)

(* C2: when the IR lifted under one flag setting halts, the IR lifted      *)
(* under any other setting halts as well, with the same output (a run      *)
(* still going after MaxSteps instructions is not judged).                 *)
C2_FlagsDoNotChangeOutput ==
    (runner.status = "halted") =>
        \A f2 \in AllFlags :
            LET r2 == runFile(plantProgram(src, f2).program, stdin)
            IN  \/ r2.status = "running"
                \/ r2.status = "halted" /\ r2.cout = runner.cout

(* C6: loc_is_zero is sound.  Whenever the runner is about to dispatch the *)
(* record at an index that was planted with loc_is_zero true, the current  *)
(* cell is 0.                                                              *)
C6_LocIsZeroSound ==
    (runner.status = "running" /\ runner.pc < Len(planter.lzAt) /\ planter.lzAt[runner.pc + 1])
        => (OnTape(runner.loc) /\ runner.memory[runner.loc] = 0)

(* The runner has left a loop it went through and is at a record planted   *)
(* with loc_is_zero true.                                                  *)
C6_Witness ==
    /\ runner.status = "running"
    /\ runner.pc < Len(planter.lzAt)
    /\ planter.lzAt[runner.pc + 1]
    /\ runner.pc >= 2
    /\ IsOp(Slot(runner, runner.pc - 2), "CLOSE")
    /\ runner.steps > 3

(* The net count of the longest run of up/down characters s starts with,   *)
(* and what follows the run.                                               *)
RECURSIVE NetRun(_, _, _, _)
NetRun(s, up, down, n) ==
    IF s # <<>> /\ Head(s) = up THEN NetRun(Tail(s), up, down, n + 1)
    ELSE IF s # <<>> /\ Head(s) = down THEN NetRun(Tail(s), up, down, n - 1)
    ELSE [n |-> n, rest |-> s]

(* moves, adds, moves at the head of s *)
Window(s) ==
    LET l == NetRun(s, ">", "<", 0)
        a == NetRun(l.rest, "+", "-", 0)
        r == NetRun(a.rest, ">", "<", 0)
    IN  [lhs |-> l.n, by |-> a.n, rhs |-> r.n, rest |-> r.rest]

(* s starts with a loop that adds at a non-zero offset, comes back and     *)
(* then decrements the current cell once.                                  *)
DecrementLast(s) ==
    /\ s # <<>> /\ Head(s) = "["
    /\ LET w == Window(Tail(s))
       IN  w.lhs # 0 /\ w.lhs + w.rhs = 0 /\ IsPrefix(<<"-", "]">>, w.rest)

(* s starts with a loop that decrements the current cell once, then adds   *)
(* at a non-zero offset and comes back.                                    *)
DecrementFirst(s) ==
    /\ IsPrefix(<<"[", "-">>, s)
    /\ LET w == Window(Drop(s, 2))
       IN  w.lhs # 0 /\ w.by # 0 /\ w.lhs + w.rhs = 0 /\ IsPrefix(<<"]">>, w.rest)

XfrRecords(offset, by) == <<OpRec("XFR_MULTIPLE", FALSE), DyadRec(offset, by)>>

AtTransferLoop ==
    /\ cstatus = "planting"
    /\ flags.xfrMultiple
    /\ ~ planter.loc_is_zero
    /\ planter' # planter

(* Executing XFR_MULTIPLE(1, 2) with cell 0 = 5 at loc 0. *)
XfrOfFive ==
    (/\ runner.status = "running"
     /\ Fetch(runner) = "XFR_MULTIPLE"
     /\ Slot(runner, runner.pc + 1) = DyadRec(1, 2)
     /\ runner.loc = 0
     /\ runner.memory[0] = 5
     /\ runner' # runner)
    => (/\ runner'.status = "running"
        /\ runner'.loc = 0
        /\ runner'.memory[0] = 0
        /\ runner'.memory[1] = 10)

(* C5 as stated: with xfrmultiple enabled and the current cell not         *)
(* provably zero, a loop that decrements the current cell once and adds by *)
(* at a non-zero offset is lifted to the single XFR_MULTIPLE(offset, by),  *)
(* whether the decrement is written first or last; XFR_MULTIPLE(1, 2) with *)
(* cell 0 = 5 leaves cell 0 = 0 and cell 1 = 10.                           *)
C5_TransferLoopEitherOrder ==
    [][/\ (AtTransferLoop /\ DecrementLast(CmdStream(planter)))
            => LET w == Window(Tail(CmdStream(planter)))
               IN  planter'.program = planter.program \o XfrRecords(w.lhs, w.by)
       /\ (AtTransferLoop /\ DecrementFirst(CmdStream(planter)))
            => LET w == Window(Drop(CmdStream(planter), 2))
               IN  planter'.program = planter.program \o XfrRecords(w.lhs, w.by)
       /\ XfrOfFive]_vars

(* C5 as amended: the loop is lifted to the single XFR_MULTIPLE(offset,    *)
(* by) when the decrement is written last in the body; with the decrement  *)
(* first it is lifted as a loop, OPEN DECR ADD_OFFSET(offset, by), closed  *)
(* by the CLOSE of its `]`.  XFR_MULTIPLE(1, 2) with cell 0 = 5 leaves     *)
(* cell 0 = 0 and cell 1 = 10.                                             *)
C5_TransferLoopDecrementLast ==
    [][/\ (AtTransferLoop /\ DecrementLast(CmdStream(planter)))
            => LET w == Window(Tail(CmdStream(planter)))
               IN  /\ planter'.program = planter.program \o XfrRecords(w.lhs, w.by)
                   /\ planter'.indexes = planter.indexes
                   /\ CmdStream(planter') = Drop(w.rest, 2)
       /\ (AtTransferLoop /\ DecrementFirst(CmdStream(planter)))
            => LET w == Window(Drop(CmdStream(planter), 2))
               IN  /\ planter'.program = planter.program \o
                         <<OpRec("OPEN", FALSE), NullRec, OpRec("DECR", TRUE),
                           OpRec("ADD_OFFSET", FALSE), DyadRec(w.lhs, w.by)>>
                   /\ planter'.indexes = Append(planter.indexes, Len(planter.program) + 1)
                   /\ CmdStream(planter') = w.rest
       /\ XfrOfFive]_vars

(* `,[>++<-]` has been lifted to GET XFR_MULTIPLE(1, 2) and run on the     *)
(* input byte 5.                                                           *)
C5_Witness ==
    /\ src = <<",", "[", ">", "+", "+", "<", "-", "]">>
    /\ runner.status = "running"
    /\ IsOp(Slot(runner, runner.pc - 2), "XFR_MULTIPLE")
    /\ Slot(runner, runner.pc - 1) = DyadRec(1, 2)
    /\ runner.loc = 0
    /\ runner.memory[0] = 0
    /\ runner.memory[1] = 10

----------------------------------------------------------------------------
(* Properties of the Engine, instruction by instruction *)

(* The step is the runner executing the instruction op. *)
Executing(op) == runner.status = "running" /\ Fetch(runner) = op /\ runner' # runner

Operand(e) == Slot(e, e.pc + 1)
HasOperand == Operand(runner).k = "Operand"
HasDyad == Operand(runner).k = "Dyad"

(* (old + n) mod 256, old a cell value and n any int *)
Mod256(old, n) == (old + (n % CellMod)) % CellMod

(* The instruction went through and stored v in cell i, nothing else. *)
Stores(i, v) ==
    /\ runner'.status = "running"
    /\ runner'.memory = [runner.memory EXCEPT ![i] = v]

(* `-.` on empty input, lifted and run *)
WrapExample == runFile(plantProgram(<<"-", ".">>, DefaultFlags).program, <<>>)

(* C11: cell arithmetic is modulo 256 in both directions.  INCR on 255     *)
(* gives 0, DECR on 0 gives 255, ADD n and ADD_OFFSET(_, n) store          *)
(* (old + n) mod 256 for every int n, and `-.` on empty input outputs the  *)
(* single byte 255.                                                        *)
C11_CellArithmeticWraps ==
    [][/\ (Executing("INCR") /\ OnTape(runner.loc))
            => Stores(runner.loc, IF runner.memory[runner.loc] = 255 THEN 0
                                  ELSE runner.memory[runner.loc] + 1)
       /\ (Executing("DECR") /\ OnTape(runner.loc))
            => Stores(runner.loc, IF runner.memory[runner.loc] = 0 THEN 255
                                  ELSE runner.memory[runner.loc] - 1)
       /\ (Executing("ADD") /\ HasOperand /\ OnTape(runner.loc))
            => Stores(runner.loc, Mod256(runner.memory[runner.loc], Operand(runner).n))
       /\ (Executing("ADD_OFFSET") /\ HasDyad /\ OnTape(runner.loc + Operand(runner).hi))
            => Stores(runner.loc + Operand(runner).hi,
                      Mod256(runner.memory[runner.loc + Operand(runner).hi], Operand(runner).lo))
       /\ WrapExample.status = "halted" /\ WrapExample.cout = <<255>>]_vars

(* The instruction went through to slot pc1 and changed nothing but pc. *)
OnlyJumps(pc1) ==
    /\ runner'.status = "running"
    /\ runner'.pc = pc1
    /\ runner'.memory = runner.memory
    /\ runner'.loc = runner.loc
    /\ runner'.cin = runner.cin
    /\ runner'.cout = runner.cout
    /\ runner'.program = runner.program

(* C12: GET on exhausted input leaves every cell and loc unchanged and     *)
(* execution goes on with the next instruction; the input stays exhausted, *)
(* so every later GET does the same.                                       *)
C12_GetAtEndOfInput ==
    [][(Executing("GET") /\ runner.cin = <<>>) => OnlyJumps(runner.pc + 1)]_vars

(* GET GET was run on the one byte 5: the second GET met the end of input. *)
C12_Witness ==
    /\ stdin = <<5>>
    /\ runner.status = "running"
    /\ runner.pc = 2
    /\ IsOp(Slot(runner, 0), "GET") /\ IsOp(Slot(runner, 1), "GET")
    /\ runner.cin = <<>>
    /\ runner.memory[0] = 5

(* C13: OPEN and CLOSE always consume their operand slot and change        *)
(* neither tape nor loc.  OPEN on a non-zero cell and CLOSE on a zero cell *)
(* go on at the slot after their operand; OPEN on a zero cell and CLOSE on *)
(* a non-zero cell go on at the program index the operand holds.           *)
C13_OpenCloseControl ==
    [][/\ (Executing("OPEN") /\ HasOperand /\ OnTape(runner.loc))
            => OnlyJumps(IF runner.memory[runner.loc] # 0 THEN runner.pc + 2
                         ELSE Operand(runner).n)
       /\ (Executing("CLOSE") /\ HasOperand /\ OnTape(runner.loc))
            => OnlyJumps(IF runner.memory[runner.loc] = 0 THEN runner.pc + 2
                         ELSE Operand(runner).n)]_vars

(* INCR OPEN(0) CLOSE(3): OPEN fell through on cell 1 and CLOSE jumped to  *)
(* slot 3.                                                                 *)
C13_Witness ==
    /\ runner.status = "running"
    /\ IsOp(Slot(runner, 0), "INCR")
    /\ IsOp(Slot(runner, 1), "OPEN") /\ Slot(runner, 2) = OperandRec(0, FALSE)
    /\ IsOp(Slot(runner, 3), "CLOSE") /\ Slot(runner, 4) = OperandRec(3, FALSE)
    /\ runner.steps = 3
    /\ runner.pc = 3
    /\ runner.memory[0] = 1

(* C14: XFR_MULTIPLE(offset, by) with v = M[loc] stores                    *)
(* (M[loc+offset] + v*by) mod 256 in M[loc+offset], for every v in 0..255  *)
(* and every int by, then sets M[loc] to 0; loc and every other cell are   *)
(* unchanged.                                                              *)
C14_XfrMultipleArithmetic ==
    [][(/\ Executing("XFR_MULTIPLE") /\ HasDyad
        /\ OnTape(runner.loc) /\ OnTape(runner.loc + Operand(runner).hi))
        => LET d == Operand(runner)
               v == runner.memory[runner.loc]
               sum == Mod256(runner.memory[runner.loc + d.hi],
                             (v * (d.lo % CellMod)) % CellMod)
           IN  /\ runner'.status = "running"
               /\ runner'.loc = runner.loc
               /\ runner'.memory =
                     [[runner.memory EXCEPT ![runner.loc + d.hi] = sum]
                         EXCEPT ![runner.loc] = 0]]_vars

----------------------------------------------------------------------------
(* Properties of the idioms of the lifter *)

(* The step is the planter lifting what starts with the characters in      *)
(* head.                                                                   *)
Lifting(head) ==
    /\ cstatus = "planting"
    /\ IsPrefix(head, CmdStream(planter))
    /\ planter' # planter

(* The records the step added to the program, when it only added. *)
Planted ==
    IF IsPrefix(planter.program, planter'.program)
    THEN Drop(planter'.program, Len(planter.program))
    ELSE <<>>

SeekLoops == {<<"[", ">", "]">>, <<"[", "<", "]">>}

(* C15: no SEEK_LEFT or SEEK_RIGHT is emitted for a `[>]` or `[<]` loop    *)
(* that is dispatched while loc_is_zero is true, whatever the flags.       *)
C15_NoSeekWhenLocIsZero ==
    [][\A head \in SeekLoops :
          (Lifting(head) /\ planter.loc_is_zero)
              => \A i \in 1..Len(planter'.program) :
                    (i > Len(planter.program))
                        => ~ (IsOp(planter'.program[i], "SEEK_LEFT")
                              \/ IsOp(planter'.program[i], "SEEK_RIGHT"))]_vars

(* The record at index i of p is INCR, DECR, ADD or the operand of an ADD. *)
IsBump(p, i) ==
    \/ IsOp(p[i], "INCR") \/ IsOp(p[i], "DECR") \/ IsOp(p[i], "ADD")
    \/ (p[i].k = "Operand" /\ i > 1 /\ IsOp(p[i - 1], "ADD"))

(* p without the INCR, DECR and ADD records it ends with. *)
RECURSIVE Untrailed(_)
Untrailed(p) ==
    IF p # <<>> /\ IsBump(p, Len(p)) THEN Untrailed(Take(p, Len(p) - 1)) ELSE p

ZeroLoops == {<<"[", "-", "]">>, <<"[", "+", "]">>}
ZeroingSource == <<"+", "+", "+", "+", "+", "+", "+", "+", "[", "-", "]">>

(* C16: when SET_ZERO is emitted for `[-]` or `[+]`, the trailing INCR,    *)
(* DECR and ADD records and their operands are removed first, so no        *)
(* SET_ZERO of the program is preceded by INCR, DECR, ADD or an ADD        *)
(* operand; `++++++++[-]` with every flag on lifts to SET_ZERO, HALT, and  *)
(* its run halts with cell 0 equal to 0 and nothing written.               *)
C16_SetZeroUnplants ==
    /\ [](\A i \in 2..Len(planter.program) :
            IsOp(planter.program[i], "SET_ZERO") => ~ IsBump(planter.program, i - 1))
    /\ [][\A head \in ZeroLoops :
            (/\ Lifting(head)
             /\ flags.locIsZero
             /\ ~ (planter.loc_is_zero /\ flags.deadCodeRemoval))
                => planter'.program
                     = Append(Untrailed(planter.program), OpRec("SET_ZERO", FALSE))]_vars
    /\ []((src = ZeroingSource /\ flags = DefaultFlags)
            => /\ (cstatus = "exited")
                    => ir = <<OpRec("SET_ZERO", FALSE), OpRec("HALT", FALSE)>>
               /\ (runner # NoEngine)
                    => /\ runner.status \in {"running", "halted"}
                       /\ runner.memory[0] = 0
                       /\ runner.cout = <<>>)

(* The ADD 8 of `++++++++[-]` has been removed for its SET_ZERO, and the   *)
(* run of the two records has halted.                                      *)
C16_Witness ==
    /\ src = ZeroingSource
    /\ flags = DefaultFlags
    /\ ir = <<OpRec("SET_ZERO", FALSE), OpRec("HALT", FALSE)>>
    /\ runner.status = "halted"
    /\ runner.steps = 2


(* C24: the superfluous flag decides whether the records before a SET_ZERO *)
(* are unplanted: when `[-]` or `[+]` is lifted to SET_ZERO with the flag  *)
(* on, the trailing INCR, DECR and ADD records are removed first; with the *)
(* flag off (`--no-superfluous`) SET_ZERO is appended to the program as it *)
(* is.                                                                     *)
C24_SuperfluousControlsUnplant ==
    [][\A head \in ZeroLoops :
          (/\ Lifting(head)
           /\ flags.locIsZero
           /\ ~ (planter.loc_is_zero /\ flags.deadCodeRemoval))
              => planter'.program
                   = Append(IF flags.unplantSuperfluousCode
                            THEN Untrailed(planter.program)
                            ELSE planter.program,
                            OpRec("SET_ZERO", FALSE))]_vars

(* The number of elements of s that are ch. *)
Count(s, ch) == Cardinality({i \in DOMAIN s : s[i] = ch})

(* The lengths of the prefixes of s that hold as many `]` as `[`: for s    *)
(* starting with `[`, the least is the length up to its matching `]`.      *)
Closings(s) == {n \in 1..Len(s) : Count(Take(s, n), "[") = Count(Take(s, n), "]")}
MatchLen(s) == CHOOSE n \in Closings(s) : \A m \in Closings(s) : n <= m

DeadExamples == {<<"[", "]", "+">>, <<"[", Comment, ".", "]", "+">>}

(* C17: a `[` dispatched while loc_is_zero is true and deadcode is on      *)
(* consumes the source up to and including its matching `]` and emits      *)
(* nothing: the program, the open-stack and loc_is_zero are unchanged;     *)
(* a leading `[ ... ]+` lifts to INCR, HALT.                               *)
C17_DeadCodeSkipped ==
    /\ [][(/\ Lifting(<<"[">>)
           /\ planter.loc_is_zero
           /\ flags.deadCodeRemoval
           /\ Closings(CmdStream(planter)) # {})
              => /\ CmdStream(planter')
                      = Drop(CmdStream(planter), MatchLen(CmdStream(planter)))
                 /\ planter'.program = planter.program
                 /\ planter'.indexes = planter.indexes
                 /\ planter'.loc_is_zero = planter.loc_is_zero]_vars
    /\ []((src \in DeadExamples /\ flags.deadCodeRemoval /\ cstatus = "exited")
            => ir = <<OpRec("INCR", TRUE), OpRec("HALT", FALSE)>>)

(* The loop in a loop that `[>[<]]` starts with was skipped whole, and     *)
(* the `.` after it was lifted.                                            *)
C17_Witness ==
    /\ src = <<"[", ">", "[", "<", "]", "]", ".">>
    /\ flags.deadCodeRemoval
    /\ cstatus = "exited"
    /\ ir = <<OpRec("PUT", FALSE), OpRec("HALT", FALSE)>>

(* The indexes of the zero cells at or to the right, and at or to the left, *)
(* of loc.                                                                  *)
ZerosRight == {i \in 0..(TapeLen - 1) : i >= runner.loc /\ runner.memory[i] = 0}
ZerosLeft == {i \in 0..(TapeLen - 1) : i <= runner.loc /\ runner.memory[i] = 0}

(* The step changes loc to i and pc to the next slot, and nothing else. *)
SeeksTo(i) ==
    /\ runner'.loc = i
    /\ runner'.pc = runner.pc + 1
    /\ runner'.status = "running"
    /\ runner'.memory = runner.memory
    /\ runner'.cout = runner.cout
    /\ runner'.cin = runner.cin
    /\ runner'.program = runner.program

(* C18: with seekzero on and loc_is_zero false, `[>]` lifts to the one     *)
(* record SEEK_RIGHT and `[<]` to the one record SEEK_LEFT; executing      *)
(* SEEK_RIGHT (SEEK_LEFT) on a tape with a zero cell at or to the right    *)
(* (left) of loc leaves loc at the nearest such cell, changes no cell,     *)
(* writes nothing and moves pc to the next slot.                           *)
C18_SeekZero ==
    [][/\ (Lifting(<<"[", ">", "]">>) /\ flags.seekZero /\ ~ planter.loc_is_zero)
            => planter'.program = Append(planter.program, OpRec("SEEK_RIGHT", FALSE))
       /\ (Lifting(<<"[", "<", "]">>) /\ flags.seekZero /\ ~ planter.loc_is_zero)
            => planter'.program = Append(planter.program, OpRec("SEEK_LEFT", FALSE))
       /\ (Executing("SEEK_RIGHT") /\ OnTape(runner.loc) /\ ZerosRight # {})
            => \E i \in ZerosRight : (\A j \in ZerosRight : i <= j) /\ SeeksTo(i)
       /\ (Executing("SEEK_LEFT") /\ OnTape(runner.loc) /\ ZerosLeft # {})
            => \E i \in ZerosLeft : (\A j \in ZerosLeft : i >= j) /\ SeeksTo(i)]_vars

(* `>+[<]` was lifted with seekzero on, and its SEEK_LEFT has moved loc    *)
(* from the cell that holds 1 to cell 0.                                   *)
C18_Witness ==
    /\ src = <<">", "+", "[", "<", "]">>
    /\ flags.seekZero
    /\ runner.status = "running"
    /\ runner.pc > 0
    /\ IsOp(Slot(runner, runner.pc - 1), "SEEK_LEFT")
    /\ runner.loc = 0
    /\ runner.memory[1] = 1

----------------------------------------------------------------------------
(* Properties of the errors *)

(* The IR holds a record with none of the keys OpCode, Operand and High,   *)
(* or an OpCode record whose name is no opcode.                            *)
Malformed(json) ==
    \E i \in 1..Len(json) :
        \/ json[i].k = "null"
        \/ json[i].k = "OpCode" /\ json[i].op \notin OpCodeNames

(* C19: loading a malformed IR ends in a load error, and the Engine        *)
(* executes no instruction of it.                                          *)
C19_MalformedIsLoadError ==
    (Malformed(ir) /\ runner # NoEngine) => runner.status = "load_error"

(* The arguments the constructor looks at: those before the first `--`. *)
RECURSIVE BeforeEnd(_)
BeforeEnd(as) ==
    IF as = <<>> THEN <<>>
    ELSE IF Head(as) = EndOfFlags THEN <<>>
    ELSE <<Head(as)>> \o BeforeEnd(Tail(as))

Recognised ==
    {Arg(<<>>, "all"), Arg(<<>>, "none")}
        \cup {Arg(<<>>, name) : name \in Features}
        \cup {Arg(<<"no-">>, name) : name \in Features}

Unrecognised(as) == \E i \in 1..Len(BeforeEnd(as)) : BeforeEnd(as)[i] \notin Recognised

(* C20: an argument before `--` that is not `--all`, `--none`,             *)
(* `--<feature>` or `--no-<feature>` aborts the compiler before a          *)
(* character of the source is read and before IR is written.               *)
C20_UnrecognisedFlagAborts ==
    (Unrecognised(args) /\ cstatus # "starting")
        => (cstatus = "aborted" /\ planter = NewPlanter(src) /\ ir = <<>>)

----------------------------------------------------------------------------
(* Properties of the runner process *)

(* The Engine e has not executed anything yet, and reads input. *)
Fresh(e, json, input) ==
    /\ e.status = "running"
    /\ e.program = loadProgram(json)
    /\ e.memory = ZeroTape
    /\ e.loc = 0
    /\ e.pc = 0
    /\ e.cin = input
    /\ e.cout = <<>>

(* C21: HALT ends the dispatch loop with tape and output as they are, and  *)
(* the Engine that halted is never changed again; the runner takes its     *)
(* arguments in order, each on a new Engine with a zero tape and loc 0     *)
(* that reads on in the one input, and exits after the last of them.       *)
C21_HaltReturns ==
    /\ [][/\ Executing("HALT")
                => /\ runner'.status = "halted"
                   /\ runner'.memory = runner.memory
                   /\ runner'.cout = runner.cout
                   /\ runner'.loc = runner.loc
          /\ (runner = NoEngine /\ runner' # runner /\ runner'.status \notin {"exited", "load_error"})
                => (ended' = <<>> /\ ir' = files[1] /\ Fresh(runner', files[1], stdin))
          /\ (runner.status = "halted" /\ runner' # runner)
                => /\ ended' = Append(ended, runner)
                   /\ (runner'.status = "exited") <=> (Len(ended') = Len(files))
                   /\ (runner'.status \notin {"exited", "load_error"})
                        => /\ ir' = files[Len(ended') + 1]
                           /\ Fresh(runner', files[Len(ended') + 1], runner.cin)
          /\ IsPrefix(ended, ended')]_vars
    /\ [](runner.status = "exited"
            => /\ Len(ended) = Len(files)
               /\ \A i \in 1..Len(ended) :
                     ended[i].status = "halted" /\ ended[i].program = loadProgram(files[i]))
    /\ \A n \in 0..(MaxFiles - 1) :
          (runner.status = "halted" /\ Len(ended) = n) ~> (Len(ended) = n + 1)

(* GET PUT was run twice on the one byte 5: the first Engine wrote 5, and  *)
(* the second, on its own zero tape, met the end of the input.             *)
C21_Witness ==
    /\ runner.status = "exited"
    /\ stdin = <<5>>
    /\ Len(ended) = 2
    /\ files[1] = <<OpRec("GET", FALSE), OpRec("PUT", FALSE)>>
    /\ files[2] = files[1]
    /\ ended[1].cout = <<5>>
    /\ ended[2].cout = <<0>>

----------------------------------------------------------------------------
(* Properties of the IR file as the runner loads it *)

(* The slot of the runner holds what the record of the file holds, its     *)
(* DiscardBeforeSetZero apart.                                             *)
SameSlot(slot, rec) ==
    /\ rec.k \in {"OpCode", "Operand", "Dyad"}
    /\ slot = [rec EXCEPT !.d = FALSE]

(* The OPEN at index i (from 0) of the program p jumps to the slot after   *)
(* the operand of a CLOSE, and that CLOSE jumps to the slot after the      *)
(* operand of this OPEN.                                                   *)
Paired(p, i) ==
    LET t == p[i + 2].n
    IN  /\ p[i + 2].k = "Operand"
        /\ t \in 2..(Len(p) - 1)
        /\ IsOp(p[t - 1], "CLOSE")
        /\ p[t].k = "Operand"
        /\ p[t].n = i + 2

(* C22: the program the runner loads from the IR of a balanced source has  *)
(* at every index the opcode, operand or dyad the lifter wrote there, then *)
(* one more HALT and nothing else, so that the target of every OPEN and    *)
(* CLOSE is the index of the slot it was planted for.                      *)
C22_LoadedAsEmitted ==
    runner # NoEngine
        => /\ runner.status # "load_error"
           /\ Len(runner.program) = Len(ir) + 1
           /\ \A i \in 1..Len(ir) : SameSlot(runner.program[i], ir[i])
           /\ runner.program[Len(ir) + 1] = OpRec("HALT", FALSE)
           /\ IsOp(ir[Len(ir)], "HALT")
           /\ \A i \in 0..(Len(ir) - 1) :
                 IsOp(runner.program[i + 1], "OPEN") => Paired(runner.program, i)

(* A loaded program with a loop and a record marked DiscardBeforeSetZero   *)
(* has run to its HALT.                                                    *)
C22_Witness ==
    /\ runner # NoEngine
    /\ runner.status = "halted"
    /\ \E i \in 1..Len(ir) : IsOp(ir[i], "OPEN")
    /\ \E i \in 1..Len(ir) : ir[i].d /\ ir[i].k = "Operand"
    /\ runner.cout # <<>>
----------------------------------------------------------------------------
(* Properties of the flags as the command line sets them *)

(* The member each feature name stands for. *)
Member(name) ==
    CASE name = "deadcode" -> "deadCodeRemoval"
      [] name = "seekzero" -> "seekZero"
      [] name = "prune-if-loc-is-zero" -> "locIsZero"
      [] name = "xfrmultiple" -> "xfrMultiple"
      [] name = "superfluous" -> "unplantSuperfluousCode"

(* The flags after one recognised argument: a group toggle sets the        *)
(* members of grouped, a feature toggle its own member and no other.       *)
Toggled(f, arg, grouped) ==
    IF arg = Arg(<<>>, "all") THEN [m \in DOMAIN f |-> IF m \in grouped THEN TRUE ELSE f[m]]
    ELSE IF arg = Arg(<<>>, "none") THEN [m \in DOMAIN f |-> IF m \in grouped THEN FALSE ELSE f[m]]
    ELSE [f EXCEPT ![Member(arg[Len(arg)])] = (Len(arg) = 2)]

(* The arguments applied left to right, a later one over an earlier one. *)
RECURSIVE LeftToRight(_, _, _)
LeftToRight(f, as, grouped) ==
    IF as = <<>> THEN f
    ELSE LeftToRight(Toggled(f, Head(as), grouped), Tail(as), grouped)

AllRecognised(as) == \A i \in 1..Len(BeforeEnd(as)) : BeforeEnd(as)[i] \in Recognised

(* C23: the flags the compiler works with are every feature enabled, then  *)
(* the arguments applied left to right: `--all` enables and `--none`       *)
(* disables each of the five features, `--<feature>` enables and           *)
(* `--no-<feature>` disables that feature and no other.                    *)
C23_FlagsAsStated ==
    (AllRecognised(args) /\ cstatus # "starting")
        => /\ cstatus # "aborted"
           /\ flags = LeftToRight(DefaultFlags, BeforeEnd(args), {Member(n) : n \in Features})

(* The same with `--all` and `--none` reaching the four features that      *)
(* setAll sets.                                                            *)
FlagsAsSet ==
    (AllRecognised(args) /\ cstatus # "starting")
        => /\ cstatus # "aborted"
           /\ flags = LeftToRight(DefaultFlags, BeforeEnd(args),
                                  {Member(n) : n \in Features \ {"superfluous"}})
----------------------------------------------------------------------------
(* Properties of the runner of the extended dialect *)

(* The values pushed and not yet popped, the oldest first. *)
Stacked(e) == [i \in 1..e.stack |-> e.data_stack[i - 1]]

(* PUSH and POP with loc on the tape and, for POP, a value on the stack:   *)
(* PUSH adds the cell as the newest value, POP stores the newest value in  *)
(* the cell and removes it.                                                *)
PushPopLifo ==
    [][/\ (Executing("PUSH") /\ OnTape(runner.loc) /\ runner.stack < StackLen)
            => /\ runner'.status = "running"
               /\ Stacked(runner') = Append(Stacked(runner), runner.memory[runner.loc])
               /\ runner'.memory = runner.memory
       /\ (Executing("POP") /\ OnTape(runner.loc) /\ runner.stack > 0)
            => /\ runner'.status = "running"
               /\ Stacked(runner) = Append(Stacked(runner'), runner'.memory[runner.loc])
               /\ runner'.memory
                    = [runner.memory EXCEPT ![runner.loc] = Stacked(runner)[runner.stack]]]_vars

(* C25: POP with the data stack empty stores 0 in the current cell and     *)
(* leaves the stack empty, and execution goes on; with a value on the      *)
(* stack POP stores the newest value pushed and not yet popped and removes *)
(* it.                                                                     *)
C25_PopOfEmptyStoresZero ==
    [][(Executing("POP") /\ OnTape(runner.loc))
          => /\ runner'.status = "running"
             /\ IF runner.stack = 0
                THEN /\ runner'.memory = [runner.memory EXCEPT ![runner.loc] = 0]
                     /\ runner'.stack = 0
                ELSE /\ runner'.memory
                          = [runner.memory EXCEPT ![runner.loc] = Stacked(runner)[runner.stack]]
                     /\ Stacked(runner) = Append(Stacked(runner'), runner'.memory[runner.loc])]_vars

(* The newest entry of the control stack. *)
Top(e) == e.call_stack[Len(e.call_stack)]

(* main saves cell 0 around a call of the procedure that saves cell 1,     *)
(* moves back to cell 0 and changes it before it restores.                 *)
SavingProcedure ==
    <<OpRec("RIGHT", FALSE), OpRec("INCR", FALSE), OpRec("SAVE", FALSE), OpRec("LEFT", FALSE),
      OpRec("INCR", FALSE), OpRec("INCR", FALSE), OpRec("RESTORE", FALSE), OpRec("RETURN", FALSE)>>
SavingFile ==
    [main |-> <<OpRec("INCR", FALSE), OpRec("SAVE", FALSE), OpRec("CALL", FALSE), RefRec("p"),
                OpRec("RESTORE", FALSE), OpRec("HALT", FALSE)>>,
     p |-> SavingProcedure, q |-> ForthQ]

(* C26: SAVE pushes the value of the current cell with its address on the  *)
(* control stack and sets the cell to 0; RESTORE on a saved entry writes   *)
(* the saved value to the cell of that address, wherever loc is, and pops  *)
(* the entry; entries under the newest one are never changed, so the       *)
(* RESTORE that pops what a SAVE pushed gives the cell the value it had    *)
(* before that SAVE.                                                       *)
C26_SaveRestore ==
    /\ [][/\ (Executing("SAVE") /\ OnTape(runner.loc))
               => /\ runner'.status = "running"
                  /\ runner'.call_stack
                       = Append(runner.call_stack,
                                SavedLocation(runner.memory[runner.loc], runner.loc))
                  /\ runner'.memory = [runner.memory EXCEPT ![runner.loc] = 0]
                  /\ runner'.loc = runner.loc
          /\ (/\ Executing("RESTORE")
              /\ runner.call_stack # <<>>
              /\ Top(runner).kind = "saved_location")
               => /\ runner'.status = "running"
                  /\ runner'.memory
                       = [runner.memory EXCEPT ![Top(runner).location] = Top(runner).saved]
                  /\ runner'.call_stack = Take(runner.call_stack, Len(runner.call_stack) - 1)
                  /\ runner'.loc = runner.loc
          /\ (runner.status = "running" /\ runner' # runner)
               => \/ runner'.call_stack = runner.call_stack
                  \/ Take(runner'.call_stack, Len(runner'.call_stack) - 1) = runner.call_stack
                  \/ runner'.call_stack = Take(runner.call_stack, Len(runner.call_stack) - 1)]_vars
    /\ []((ir = SavingFile /\ runner.status = "halted")
            => (runner.memory = [ZeroTape EXCEPT ![0] = 1, ![1] = 1] /\ runner.call_stack = <<>>))

(* The nested pair has been run to HALT: both cells have the value 1 they  *)
(* had before their SAVE, cell 1 having been restored with loc at cell 0.  *)
C26_Witness ==
    /\ ir = SavingFile
    /\ runner.status = "halted"
    /\ runner.memory[0] = 1
    /\ runner.memory[1] = 1
    /\ runner.loc = 0

(* main calls p, which calls q twice, once on each side of a RIGHT. *)
NestingFile ==
    [main |-> <<OpRec("CALL", FALSE), RefRec("p"), OpRec("HALT", FALSE)>>,
     p |-> <<OpRec("CALL", FALSE), RefRec("q"), OpRec("RIGHT", FALSE), OpRec("CALL", FALSE),
             RefRec("q"), OpRec("RETURN", FALSE)>>,
     q |-> ForthQ]

(* The entry is the address of the slot after the Ref operand of a CALL. *)
AfterCall(e, entry) ==
    /\ entry.proc \in DOMAIN e.bindings
    /\ entry.pc \in 2..Len(e.bindings[entry.proc])
    /\ e.bindings[entry.proc][entry.pc].k = "Ref"
    /\ IsOp(e.bindings[entry.proc][entry.pc - 1], "CALL")

(* C27: execution starts at the first slot of main with the control stack  *)
(* empty; CALL pushes the address of the slot after its Ref operand and    *)
(* goes on at the first slot of the procedure the Ref names; RETURN on a   *)
(* return address pops it and goes on there; every return address on the   *)
(* control stack is the slot after a CALL, and the stack changes at its    *)
(* newest end only, so nested calls return last called first.              *)
C27_CallReturn ==
    /\ [][/\ (runner = NoEngine /\ runner' # runner /\ "main" \in DOMAIN ir
                /\ runner'.status # "load_error")
               => /\ runner'.status = "running"
                  /\ runner'.proc = "main"
                  /\ runner'.program = forthRecords(ir["main"])
                  /\ runner'.pc = 0
                  /\ runner'.call_stack = <<>>
          /\ (Executing("CALL") /\ Slot(runner, runner.pc + 1).k = "Ref")
               => /\ runner'.status = "running"
                  /\ runner'.call_stack
                       = Append(runner.call_stack, ReturnAddress(runner.proc, runner.pc + 2))
                  /\ runner'.proc = Slot(runner, runner.pc + 1).op
                  /\ runner'.program = runner.bindings[runner'.proc]
                  /\ (runner'.proc \in DOMAIN ir)
                        => runner'.program = forthRecords(ir[runner'.proc])
                  /\ runner'.pc = 0
                  /\ runner'.memory = runner.memory
          /\ (/\ Executing("RETURN")
              /\ runner.call_stack # <<>>
              /\ Top(runner).kind = "return_address")
               => /\ runner'.status = "running"
                  /\ runner'.proc = Top(runner).proc
                  /\ runner'.program = runner.bindings[runner'.proc]
                  /\ runner'.pc = Top(runner).pc
                  /\ runner'.call_stack = Take(runner.call_stack, Len(runner.call_stack) - 1)
                  /\ runner'.memory = runner.memory
          /\ (runner.status = "running" /\ runner' # runner)
               => \/ runner'.call_stack = runner.call_stack
                  \/ Take(runner'.call_stack, Len(runner'.call_stack) - 1) = runner.call_stack
                  \/ runner'.call_stack = Take(runner.call_stack, Len(runner.call_stack) - 1)]_vars
    /\ [](runner.status \in {"running", "halted"}
            => \A i \in 1..Len(runner.call_stack) :
                  runner.call_stack[i].kind = "return_address"
                      => AfterCall(runner, runner.call_stack[i]))
    /\ []((ir = NestingFile /\ runner.status = "halted")
            => /\ runner.memory = [ZeroTape EXCEPT ![0] = 1, ![1] = 1]
               /\ runner.loc = 1
               /\ runner.proc = "main"
               /\ runner.call_stack = <<>>)

(* The nested calls have returned to main, which has halted: q ran once on *)
(* cell 0 and once on cell 1.                                              *)
C27_Witness ==
    /\ ir = NestingFile
    /\ runner.status = "halted"
    /\ runner.proc = "main"
    /\ runner.memory[0] = 1
    /\ runner.memory[1] = 1
----------------------------------------------------------------------------
(* Properties of plantCLOSE *)

(* What a step on `]` with an open loop does to the program, target being  *)
(* what the operand of the matching OPEN is overwritten with: CLOSE is     *)
(* appended at index Len(program), the operand of OPEN, at the index start *)
(* that indexes ends with, becomes target, the operand start + 1 of CLOSE  *)
(* is appended, start is popped and no other slot changes.                 *)
Closes(target) ==
    LET p == planter.program
        q == planter'.program
        c == Len(p)
        start == planter.indexes[Len(planter.indexes)]
    IN  /\ IsOp(p[start], "OPEN")
        /\ p[start + 1] = NullRec
        /\ Len(q) = c + 2
        /\ IsOp(q[c + 1], "CLOSE")
        /\ q[start + 1].k = "Operand"
        /\ q[start + 1].n = target
        /\ q[c + 2].k = "Operand"
        /\ q[c + 2].n = start + 1
        /\ \A i \in 1..c : i # start + 1 => q[i] = p[i]
        /\ planter'.indexes = Take(planter.indexes, Len(planter.indexes) - 1)

(* C28: on `]` the operand of the matching OPEN is overwritten with        *)
(* end + 1, end being the index of the operand slot of the CLOSE (the      *)
(* length of the program once the CLOSE opcode is planted, i.e. the index  *)
(* of the CLOSE opcode slot plus one), and the operand of CLOSE is         *)
(* start + 1, start being the index of the operand slot of OPEN.           *)
C28_CloseBackpatches ==
    [][(Lifting(<<"]">>) /\ planter.indexes # <<>>)
          => Closes((Len(planter.program) + 1) + 1)]_vars

(* C28 as stated: end is the index of the CLOSE opcode slot. *)
C28_CloseBackpatchesAsStated ==
    [][(Lifting(<<"]">>) /\ planter.indexes # <<>>)
          => Closes(Len(planter.program) + 1)]_vars

(* A loop with a body has been lifted and closed: the operand of its OPEN  *)
(* is the index after the operand of its CLOSE, whose operand is the index *)
(* after the operand of the OPEN.                                          *)
C28_Witness ==
    /\ cstatus = "planted"
    /\ \E i \in 1..(Len(planter.program) - 4) :
          LET p == planter.program
          IN  /\ IsOp(p[i], "OPEN")
              /\ IsOp(p[i + 2], "PUT")
              /\ IsOp(p[i + 3], "CLOSE")
              /\ p[i + 1] = OperandRec(i + 4, FALSE)
              /\ p[i + 4] = OperandRec(i + 1, FALSE)
----------------------------------------------------------------------------
(* Properties of the idiom instructions against the loops they replace *)

Idioms == {"SET_ZERO", "SEEK_LEFT", "SEEK_RIGHT", "XFR_MULTIPLE"}

(* The loop of the source was lifted to one idiom instruction. *)
LiftedToIdiom ==
    /\ Len(ir) >= 3
    /\ IsOp(ir[1], "GET")
    /\ \E op \in Idioms : IsOp(ir[2], op)
    /\ IsOp(ir[Len(ir)], "HALT")
    /\ \A i \in 1..Len(ir) : ~ IsOp(ir[i], "OPEN")

(* The runner ended as the interpreter did, with its tape and its loc. *)
SameEffect ==
    /\ runner.status = "halted"
    /\ runner.memory = naive.memory
    /\ runner.loc = naive.loc

(* C29: when the interpreter has run the loop to its end from a tape and a *)
(* loc on the tape, the runner, on the idiom instruction the loop was      *)
(* lifted to and from the same tape and loc, has ended with the same tape  *)
(* and the same loc.                                                       *)
C29_IdiomsAsLoops ==
    (naive.status = "halted" /\ ir # <<>>)
        => (LiftedToIdiom /\ SameEffect)

(* The same where the cell XFR_MULTIPLE adds to is a cell of the tape. *)
IdiomsAsLoopsOnTape ==
    (/\ naive.status = "halted"
     /\ ir # <<>>
     /\ IsOp(ir[2], "XFR_MULTIPLE") => OnTape(naive.loc + ir[3].hi))
        => (LiftedToIdiom /\ SameEffect)
----------------------------------------------------------------------------
(* Properties of the operands the lifter plants *)

(* The opcodes of the records a run of net n is lifted to, one being the   *)
(* short form of +1, other that of -1 and long the form with an operand.   *)
NetOps(n, one, other, long) ==
    IF n = 0 THEN <<>>
    ELSE IF n = 1 THEN <<one>>
    ELSE IF n = -1 THEN <<other>>
    ELSE <<long, "">>

(* The records the step planted are those of a run of net n. *)
PlantedNet(n, one, other, long) ==
    /\ IsPrefix(planter.program, planter'.program)
    /\ [i \in 1..Len(Planted) |-> Planted[i].op] = NetOps(n, one, other, long)
    /\ (n \notin {-1, 0, 1}) => (Planted[2].k = "Operand" /\ Planted[2].n = n)

(* C30: no MOVE and no ADD of the program has the operand 0, 1 or -1, and  *)
(* no ADD_OFFSET has by = 0; a run of `+` and `-` alone is lifted to no    *)
(* record when its net is 0, to INCR or DECR when it is 1 or -1 and to     *)
(* ADD n otherwise, and a run of `>` and `<` alone likewise to nothing,    *)
(* RIGHT or LEFT, or MOVE n.                                               *)
C30_NoTrivialOperands ==
    /\ [](\A i \in 1..(Len(planter.program) - 1) :
            LET op == planter.program[i]
                arg == planter.program[i + 1]
            IN  /\ (IsOp(op, "MOVE") \/ IsOp(op, "ADD"))
                    => (arg.k = "Operand" /\ arg.n \notin {-1, 0, 1})
                /\ IsOp(op, "ADD_OFFSET") => (arg.k = "Dyad" /\ arg.lo # 0))
    /\ [](\A i \in 1..Len(planter.program) :
            (IsOp(planter.program[i], "MOVE") \/ IsOp(planter.program[i], "ADD")
                \/ IsOp(planter.program[i], "ADD_OFFSET"))
                => i < Len(planter.program))
    /\ [][LET s == CmdStream(planter)
          IN  (cstatus = "planting" /\ planter' # planter /\ s # <<>>)
                 => /\ (Range(s) \subseteq {"+", "-"})
                         => PlantedNet(Count(s, "+") - Count(s, "-"), "INCR", "DECR", "ADD")
                    /\ (Range(s) \subseteq {">", "<"})
                         => PlantedNet(Count(s, ">") - Count(s, "<"), "RIGHT", "LEFT", "MOVE")]_vars

(* `---` has been lifted to ADD -3 and HALT. *)
C30_Witness ==
    /\ cstatus = "planted"
    /\ src = <<"-", "-", "-">>
    /\ Len(planter.program) = 3
    /\ IsOp(planter.program[1], "ADD")
    /\ planter.program[2].n = -3
----------------------------------------------------------------------------
(* Properties of the windows of plantMoveAddMove *)

MoveCmds == {">", "<"}
AddCmds == {"+", "-"}

(* The window plantExpr scans when the planter is at a move character, and *)
(* the scanner after it.                                                   *)
TopWindow ==
    LET popped(p) == scanMoveAddMove(p.s, IF p.r = ">" THEN 1 ELSE -1)
    IN  popped(popNoted(planter))

(* The step is plantExpr popping a move character and planting the window  *)
(* scanned from it.                                                        *)
AtWindow ==
    /\ cstatus = "planting"
    /\ CmdStream(planter) # <<>>
    /\ Head(CmdStream(planter)) \in MoveCmds
    /\ planter' # planter

(* Every run of `+` and `-` of s, net being the net of the run s continues, *)
(* cancels to zero.                                                        *)
RECURSIVE AddRunsCancel(_, _)
AddRunsCancel(s, net) ==
    IF s = <<>> THEN net = 0
    ELSE IF Head(s) = "+" THEN AddRunsCancel(Tail(s), net + 1)
    ELSE IF Head(s) = "-" THEN AddRunsCancel(Tail(s), net - 1)
    ELSE net = 0 /\ AddRunsCancel(Tail(s), 0)

(* C31: a window with by = 0 and rhs # 0 plants no record of its own: what *)
(* is planted is what the window scanned next, seeded with lhs + rhs,      *)
(* plants; so a source of moves separated by runs of adds that cancel is   *)
(* lifted to the one move record of its net (RIGHT, LEFT or MOVE n), or to *)
(* none when the moves cancel too.                                         *)
C31_CancelledAddsMergeMoves ==
    /\ [][AtWindow =>
            LET w == TopWindow
                seeded(nx) == planter' = plantMoveAddMove(nx.s, nx.mim)
            IN  (w.mim.by = 0 /\ w.mim.rhs # 0)
                    => seeded(scanMoveAddMove(w.s, w.mim.lhs + w.mim.rhs))]_vars
    /\ [][LET s == CmdStream(planter)
          IN  (AtWindow /\ Range(s) \subseteq (MoveCmds \cup AddCmds) /\ AddRunsCancel(s, 0))
                 => PlantedNet(Count(s, ">") - Count(s, "<"), "RIGHT", "LEFT", "MOVE")]_vars

(* `>>+-<` has been lifted to RIGHT and HALT. *)
C31_Witness ==
    /\ cstatus = "planted"
    /\ src = <<">", ">", "+", "-", "<">>
    /\ planter.program = <<OpRec("RIGHT", FALSE), OpRec("HALT", FALSE)>>


(* The records a move by n is lifted to. *)
NetRecords(n) ==
    IF n = 0 THEN <<>>
    ELSE IF n = 1 THEN <<OpRec("RIGHT", FALSE)>>
    ELSE IF n = -1 THEN <<OpRec("LEFT", FALSE)>>
    ELSE <<OpRec("MOVE", FALSE), OperandRec(n, FALSE)>>


(* The scanner of the planter s: what the input still holds and the buffer. *)
Scanner(s) == <<s.input, s.buffer>>

(* C32: a window with by # 0, lhs # 0 and rhs = -lhs is lifted to the one  *)
(* pair ADD_OFFSET, (lhs, by): no MOVE, LEFT or RIGHT is planted and the   *)
(* scanner is left as the scan of the window left it; the runner executing *)
(* ADD_OFFSET with the cell at loc + offset on the tape adds by to that    *)
(* cell, modulo 256, and changes neither loc nor another cell.             *)
C32_BalancedWindowIsAddOffset ==
    /\ [][AtWindow =>
            LET w == TopWindow
            IN  (w.mim.by # 0 /\ w.mim.lhs # 0 /\ w.mim.rhs = -w.mim.lhs)
                    => /\ planter'.program
                            = planter.program
                                \o <<OpRec("ADD_OFFSET", FALSE), DyadRec(w.mim.lhs, w.mim.by)>>
                       /\ Scanner(planter') = Scanner(w.s)
                       /\ planter'.indexes = planter.indexes]_vars
    /\ [][(/\ runner # NoEngine
           /\ runner.status = "running"
           /\ Fetch(runner) = "ADD_OFFSET"
           /\ runner' # runner
           /\ OnTape(runner.loc + Slot(runner, runner.pc + 1).hi))
             => LET d == Slot(runner, runner.pc + 1)
                IN  /\ d.k = "Dyad"
                    /\ runner'.status = "running"
                    /\ runner'.loc = runner.loc
                    /\ runner'.pc = runner.pc + 2
                    /\ runner'.memory
                         = [runner.memory EXCEPT ![runner.loc + d.hi] = (@ + d.lo) % CellMod]]_vars

(* `>+<` has been lifted to ADD_OFFSET (1, 1) and HALT, and its run has    *)
(* halted at cell 0 with 1 in cell 1.                                      *)
C32_Witness ==
    /\ src = <<">", "+", "<">>
    /\ ir = <<OpRec("ADD_OFFSET", FALSE), DyadRec(1, 1), OpRec("HALT", FALSE)>>
    /\ runner.status = "halted"
    /\ runner.loc = 0
    /\ runner.memory[1] = 1


(* The window the source is, when it starts with a move character. *)
SourceWindow ==
    LET popped(p) == scanMoveAddMove(p.s, IF p.r = ">" THEN 1 ELSE -1)
    IN  popped(popNoted(NewPlanter(src)))

(* lhs and rhs have opposite signs and |lhs| > |rhs|. *)
Overshot(mim) == mim.lhs * mim.rhs < 0 /\ abs(mim.lhs) > abs(mim.rhs)

(* lhs and rhs have opposite signs and |lhs| < |rhs|. *)
Undershot(mim) == mim.lhs * mim.rhs < 0 /\ abs(mim.lhs) < abs(mim.rhs)

(* C33: a window with by # 0 and lhs, rhs of opposite sign and unequal     *)
(* magnitude: when |lhs| > |rhs| the records planted are those of a move   *)
(* by lhs + rhs (RIGHT, LEFT or MOVE n) and then ADD_OFFSET (-rhs, by),    *)
(* and nothing more is scanned; when |lhs| < |rhs| they are ADD_OFFSET     *)
(* (lhs, by) and then what the window scanned next, seeded with lhs + rhs, *)
(* plants.  The run of a source that is such a window alone halts at       *)
(* lhs + rhs with by, modulo 256, in cell lhs and 0 in every other cell.   *)
C33_UnbalancedWindow ==
    /\ [][AtWindow =>
            LET w == TopWindow
                lhs == w.mim.lhs
                by == w.mim.by
                rhs == w.mim.rhs
                offset(s1) == plantADD_OFFSET(s1, lhs, by)
                seeded(nx) == planter' = plantMoveAddMove(nx.s, nx.mim)
            IN  /\ (by # 0 /\ Overshot(w.mim))
                     => /\ planter'.program
                             = planter.program
                                 \o NetRecords(lhs + rhs)
                                 \o <<OpRec("ADD_OFFSET", FALSE), DyadRec(-rhs, by)>>
                        /\ Scanner(planter') = Scanner(w.s)
                /\ (by # 0 /\ Undershot(w.mim))
                     => /\ IsPrefix(planter.program
                                       \o <<OpRec("ADD_OFFSET", FALSE), DyadRec(lhs, by)>>,
                                    planter'.program)
                        /\ seeded(scanMoveAddMove(offset(w.s), lhs + rhs))]_vars
    /\ []((/\ src # <<>>
           /\ Head(src) \in MoveCmds
           /\ runner # NoEngine
           /\ runner.status = "halted")
            => LET w == SourceWindow
               IN  (/\ CmdStream(w.s) = <<>>
                    /\ w.mim.by # 0
                    /\ (Overshot(w.mim) \/ Undershot(w.mim)))
                      => /\ runner.loc = w.mim.lhs + w.mim.rhs
                         /\ runner.memory
                              = [ZeroTape EXCEPT ![w.mim.lhs] = w.mim.by % CellMod])

(* `>>+<` has been lifted to RIGHT, ADD_OFFSET (1, 1) and HALT, and its    *)
(* run has halted at cell 1 with 1 in cell 2.                              *)
C33_Witness ==
    /\ src = <<">", ">", "+", "<">>
    /\ ir = <<OpRec("RIGHT", FALSE), OpRec("ADD_OFFSET", FALSE), DyadRec(1, 1),
              OpRec("HALT", FALSE)>>
    /\ runner.status = "halted"
    /\ runner.loc = 1
    /\ runner.memory[2] = 1

----------------------------------------------------------------------------
(* Properties of loc_is_zero *)

(* The opcodes after which the current cell is known to be zero. *)
ZeroKnownAfter == {"SET_ZERO", "SEEK_LEFT", "SEEK_RIGHT", "CLOSE"}

(* The name of the last opcode record of p, "" when it has none. *)
RECURSIVE LastOpcode(_)
LastOpcode(p) ==
    IF p = <<>> THEN ""
    ELSE IF p[Len(p)].k = "OpCode" THEN p[Len(p)].op
    ELSE LastOpcode(Take(p, Len(p) - 1))

(* The compiler process has not run into undefined behaviour. *)
Defined == cstatus \in {"planting", "planted", "exited"}

(* C34: planting an opcode record leaves loc_is_zero true exactly for      *)
(* SET_ZERO, SEEK_LEFT, SEEK_RIGHT and CLOSE, and planting an operand or   *)
(* a dyad leaves it as it was; so after every step of the lifter           *)
(* loc_is_zero is what the last opcode record of the program gives (true   *)
(* while there is none), and a step that plants nothing, for a zero net    *)
(* move or add or for a dead loop, does not change it.                     *)
C34_LocIsZeroFollowsOpcode ==
    /\ [](Defined =>
            /\ \A name \in OpCodeNames :
                  plantOpCode(planter, InstructionSet[name]).loc_is_zero
                      = (name \in ZeroKnownAfter)
            /\ \A name \in OpCodeNames :
                  plantOperand(planter, 2, InstructionSet[name]).loc_is_zero
                      = planter.loc_is_zero
            /\ plantDyad(planter, 1, 2).loc_is_zero = planter.loc_is_zero
            /\ planter.loc_is_zero
                  = (LastOpcode(planter.program) \in (ZeroKnownAfter \cup {""})))
    /\ [][(cstatus = "planting" /\ planter'.program = planter.program)
             => planter'.loc_is_zero = planter.loc_is_zero]_vars

(* A loop has been lifted to OPEN ... CLOSE after a PUT: the program ends  *)
(* with the operand of CLOSE and loc_is_zero is true again.                *)
C34_Witness ==
    /\ cstatus = "planting"
    /\ Len(planter.program) >= 5
    /\ IsOp(planter.program[1], "PUT")
    /\ IsOp(planter.program[Len(planter.program) - 1], "CLOSE")
    /\ planter.program[Len(planter.program)].k = "Operand"
    /\ planter.loc_is_zero

----------------------------------------------------------------------------
(* Properties of unplantBeforeSetZero *)

(* Every opcode of p that takes an operand is followed by it: ADD and MOVE *)
(* by an Operand, ADD_OFFSET and XFR_MULTIPLE by a dyad, CLOSE by an       *)
(* Operand and OPEN by an Operand or by the placeholder not yet patched.   *)
FullOperands(p) ==
    \A i \in 1..Len(p) :
        LET next == IF i < Len(p) THEN p[i + 1].k ELSE "none"
        IN  /\ (IsOp(p[i], "ADD") \/ IsOp(p[i], "MOVE") \/ IsOp(p[i], "CLOSE"))
                => next = "Operand"
            /\ (IsOp(p[i], "ADD_OFFSET") \/ IsOp(p[i], "XFR_MULTIPLE")) => next = "Dyad"
            /\ IsOp(p[i], "OPEN") => next \in {"Operand", "null"}

(* The indexes of the open-stack are, in order, those of the placeholders  *)
(* of p, each the slot after an OPEN (an index counts the records before   *)
(* the slot).                                                              *)
OpenStackAddresses(p, indexes) ==
    /\ \A k \in 1..Len(indexes) :
          /\ indexes[k] \in 1..(Len(p) - 1)
          /\ IsOp(p[indexes[k]], "OPEN")
          /\ p[indexes[k] + 1] = NullRec
    /\ \A i \in 1..Len(p) : (p[i] = NullRec) => \E k \in 1..Len(indexes) : indexes[k] = i - 1
    /\ \A k \in 1..(Len(indexes) - 1) : indexes[k] < indexes[k + 1]

(* p holds as many OPEN as CLOSE and open loops. *)
BracesMatch(p, indexes) ==
    Cardinality({i \in 1..Len(p) : IsOp(p[i], "OPEN")})
        = Cardinality({i \in 1..Len(p) : IsOp(p[i], "CLOSE")}) + Len(indexes)

(* C35: whenever unplantBeforeSetZero is applied to the program the lifter *)
(* has planted, what it removes is a trailing run of INCR, DECR and ADD    *)
(* records and ADD operands and nothing else; afterwards the open-stack is *)
(* as it was and each of its indexes is that of the placeholder after its  *)
(* OPEN, every opcode left has its operand, and the OPEN records are as    *)
(* many as the CLOSE records and the open loops.  The lifter takes records *)
(* away in no other way: a step after which the program is no longer but   *)
(* different leaves what unplantBeforeSetZero leaves, and SET_ZERO.        *)
C35_UnplantKeepsLoops ==
    /\ [](Defined =>
            LET kept(u) ==
                    /\ u.program = Untrailed(planter.program)
                    /\ \A i \in (Len(u.program) + 1)..Len(planter.program) :
                          /\ IsBump(planter.program, i)
                          /\ planter.program[i].k \in {"OpCode", "Operand"}
                          /\ planter.program[i].op \in {"INCR", "DECR", "ADD", ""}
                    /\ u.indexes = planter.indexes
                    /\ OpenStackAddresses(u.program, u.indexes)
                    /\ FullOperands(u.program)
                    /\ BracesMatch(u.program, u.indexes)
            IN  kept(unplantBeforeSetZero(planter)))
    /\ [][(/\ cstatus = "planting"
           /\ cstatus' = "planting"
           /\ Len(planter'.program) <= Len(planter.program)
           /\ planter'.program # planter.program)
             => planter'.program
                  = Append(unplantBeforeSetZero(planter).program, OpRec("SET_ZERO", FALSE))]_vars

(* In `[+[-]` without dead-code removal the INCR after the OPEN has been   *)
(* removed for SET_ZERO, and the placeholder of the OPEN is still there.   *)
C35_Witness ==
    /\ cstatus = "planting"
    /\ planter.program = <<OpRec("OPEN", FALSE), NullRec, OpRec("SET_ZERO", FALSE)>>
    /\ planter.indexes = <<1>>
    /\ src = <<"[", "+", "[", "-", "]", "]">>

----------------------------------------------------------------------------
(* Properties of the dispatch of the runner *)

(* The step is the runner executing OPEN or CLOSE and jumping. *)
Jumping(op) ==
    /\ runner.status = "running"
    /\ Fetch(runner) = op
    /\ runner'.status = "running"
    /\ runner' # runner
    /\ runner'.pc # runner.pc + 2

(* C36: while the runner executes the IR the lifter emitted for a source   *)
(* with balanced brackets, pc is at a slot that holds an opcode of the     *)
(* instruction set, never at an operand or a dyad and never outside the    *)
(* program; a taken OPEN jump lands on the slot after the operand of a     *)
(* CLOSE and a taken CLOSE jump on the slot after the operand of an OPEN;  *)
(* and when the runner has halted the slot before pc is a HALT and pc is   *)
(* no further than the HALT the loader appended after the one of the IR.   *)
C36_DispatchOnOpcodes ==
    /\ []((runner.status = "running")
            => /\ runner.pc \in 0..Len(ir)
               /\ Fetch(runner) \in OpCodeNames)
    /\ []((runner.status = "halted")
            => /\ runner.pc \in 1..Len(ir)
               /\ IsOp(Slot(runner, runner.pc - 1), "HALT")
               /\ IsOp(Slot(runner, Len(ir)), "HALT"))
    /\ [][/\ Jumping("OPEN")
             => /\ Fetch(runner') \in OpCodeNames
                /\ IsOp(Slot(runner', runner'.pc - 2), "CLOSE")
          /\ Jumping("CLOSE")
             => /\ Fetch(runner') \in OpCodeNames
                /\ IsOp(Slot(runner', runner'.pc - 2), "OPEN")]_vars

(* `,[-]` lifted without SET_ZERO is run on the byte 5: the CLOSE has      *)
(* jumped back once, and the next dispatch is the DECR after the operand   *)
(* of the OPEN.                                                            *)
C36_Witness ==
    /\ src = <<",", "[", "-", "]">>
    /\ ~ flags.locIsZero
    /\ runner.status = "running"
    /\ runner.pc = 3
    /\ runner.steps = 4
    /\ runner.memory[0] = 4
    /\ Fetch(runner) = "DECR"

----------------------------------------------------------------------------
(* Properties of the flags that gate the idioms *)

IdiomOps == {"SET_ZERO", "SEEK_LEFT", "SEEK_RIGHT", "XFR_MULTIPLE"}

(* The window plantExpr scans after the `[` the planter is at, and the     *)
(* scanner after it.                                                       *)
LoopWindow == scanMoveAddMove(popNoted(planter).s, 0)

(* The step is plantExpr popping a `[`. *)
AtAnyLoop ==
    /\ cstatus = "planting"
    /\ IsPrefix(<<"[">>, CmdStream(planter))
    /\ planter' # planter

(* The step is plantExpr popping a `[` that is not skipped as dead code. *)
AtLoop == AtAnyLoop /\ ~ (planter.loc_is_zero /\ flags.deadCodeRemoval)

(* The loop the window w starts matches an idiom, and the flag that gates  *)
(* the idiom is off.                                                       *)
GatedOff(w) ==
    LET rest == CmdStream(w.s)
        bump == matches(w.mim, 0, 1, 0) \/ matches(w.mim, 0, -1, 0)
        step == matches(w.mim, 1, 0, 0) \/ matches(w.mim, -1, 0, 0)
    IN  \/ bump /\ IsPrefix(<<"]">>, rest) /\ ~ flags.locIsZero
        \/ step /\ IsPrefix(<<"]">>, rest) /\ ~ flags.seekZero
        \/ isNonZeroBalanced(w.mim) /\ IsPrefix(<<"-", "]">>, rest) /\ ~ flags.xfrMultiple

(* The flags `--none` leaves: the four that setAll reaches are off. *)
NoneSet ==
    /\ ~ flags.deadCodeRemoval
    /\ ~ flags.seekZero
    /\ ~ flags.locIsZero
    /\ ~ flags.xfrMultiple

(* The number of opcode records of p that are name. *)
OpCount(p, name) == Cardinality({i \in 1..Len(p) : IsOp(p[i], name)})

(* The step has planted OPEN and its placeholder and then the records of   *)
(* the window w, none of them SET_ZERO, SEEK_LEFT, SEEK_RIGHT or           *)
(* XFR_MULTIPLE; the loop is on the open-stack, no `]` has been taken from *)
(* the source, and when the window is planted without a rescan the source  *)
(* is left exactly as the scan of the window left it.                      *)
PlantedAsLoop(w) ==
    /\ IsPrefix(planter.program \o <<OpRec("OPEN", FALSE), NullRec>>, planter'.program)
    /\ \A i \in 1..Len(Planted) : Planted[i].op \notin IdiomOps
    /\ planter'.indexes = Append(planter.indexes, Len(planter.program) + 1)
    /\ Count(CmdStream(planter'), "]") = Count(CmdStream(planter), "]")
    /\ (w.mim.by # 0 \/ w.mim.rhs = 0) => CmdStream(planter') = CmdStream(w.s)

(* C37: when a loop that is not skipped as dead code matches an idiom      *)
(* whose flag is off, it is lifted as a loop: OPEN and the records of its  *)
(* window are planted, and its closing `]` or `-]` is left in the source.  *)
(* With the four flags of `--none` off, the IR written out holds none of   *)
(* the four idiom opcodes, as many OPEN as the source holds `[` and as     *)
(* many CLOSE as it holds `]`.                                             *)
C37_DisabledIdiomIsLoop ==
    /\ [][(AtLoop /\ GatedOff(LoopWindow)) => PlantedAsLoop(LoopWindow)]_vars
    /\ []((cstatus = "exited" /\ NoneSet)
            => /\ \A name \in IdiomOps : OpCount(ir, name) = 0
               /\ OpCount(ir, "OPEN") = Count(src, "[")
               /\ OpCount(ir, "CLOSE") = Count(src, "]"))

(* C37 as stated: every loop that matches an idiom whose flag is off is    *)
(* lifted as a loop, the one met with loc_is_zero true under dead-code     *)
(* removal too.                                                            *)
C37_DisabledIdiomIsLoopAsStated ==
    [][(AtAnyLoop /\ GatedOff(LoopWindow)) => PlantedAsLoop(LoopWindow)]_vars

(* `[-]` under `--none` has been written out as OPEN 5, DECR, CLOSE 2 and  *)
(* HALT.                                                                   *)
C37_Witness ==
    /\ cstatus = "exited"
    /\ src = <<"[", "-", "]">>
    /\ NoneSet
    /\ ir = <<OpRec("OPEN", FALSE), OperandRec(5, FALSE), OpRec("DECR", TRUE),
              OpRec("CLOSE", FALSE), OperandRec(2, FALSE), OpRec("HALT", FALSE)>>

----------------------------------------------------------------------------
(* Properties of the scanner under any sequence of calls *)

(* The character at index n (from 0) of the stream s, or the end sentinel. *)
StreamAt(s, n) == IF n < Len(s) THEN s[n + 1] ELSE None

(* C38: whatever calls are made in whatever order, what the scanner still  *)
(* holds (the buffer and then the commands of the input) is the commands   *)
(* of the source without a prefix of them, so the characters removed so    *)
(* far are that prefix, in order.  pop removes the first character and     *)
(* returns it; tryPop( ch ) removes the first character when it is ch and  *)
(* nothing otherwise; tryPopString( str ) removes str when it returns true *)
(* and nothing otherwise; peek and peekN remove nothing and return the     *)
(* character at their index; peek() does what peekN( 0 ) does; and with    *)
(* nothing left pop and peek return the end sentinel.                      *)
C38_ScannerRemovesInOrder ==
    /\ []((cstatus = "scanning")
            => \E n \in 0..Len(Strip(src)) : CmdStream(planter) = Drop(Strip(src), n))
    /\ [][(cstatus = "scanning") =>
            LET before == CmdStream(planter)
                after == CmdStream(planter')
                op == last'.op
                arg == last'.arg
                r == last'.r
            IN  /\ (op = "peek")
                     => /\ after = before
                        /\ r = StreamAt(before, 0)
                        /\ [r |-> r, s |-> planter'] = peekN(planter, 0)
                /\ (op = "peekN")
                     => /\ after = before
                        /\ r = StreamAt(before, arg[1])
                /\ (op = "pop")
                     => /\ r = StreamAt(before, 0)
                        /\ after = Drop(before, 1)
                /\ (op = "tryPop")
                     => /\ r = (StreamAt(before, 0) = arg[1])
                        /\ after = IF r THEN Drop(before, 1) ELSE before
                /\ (op = "tryPopString")
                     => /\ r \in BOOLEAN
                        /\ before = IF r THEN arg \o after ELSE after]_vars

(* A source with a byte that is no command among its commands has been     *)
(* taken to its end, and the last pop returned the end sentinel.           *)
C38_Witness ==
    /\ cstatus = "scanning"
    /\ Len(Strip(src)) >= 2
    /\ Len(src) > Len(Strip(src))
    /\ last.op = "pop"
    /\ last.r = None
    /\ planter.input = <<>>
    /\ planter.buffer = <<>>

----------------------------------------------------------------------------
(* Properties of the termination of the lifter *)

(* The calls of plantMoveAddMove nested in the call for the window mim,    *)
(* made with the scanner of s.                                             *)
RECURSIVE nested(_, _)
nested(s, mim) ==
    LET again(n) ==
            LET scanned(nx) == 1 + nested(nx.s, nx.mim)
            IN  scanned(scanMoveAddMove(s, n))
    IN  IF mim.by = 0
        THEN IF mim.rhs = 0 THEN 0
             ELSE IF mim.lhs = 0 THEN again(mim.rhs)
             ELSE again(mim.lhs + mim.rhs)
        ELSE IF (mim.lhs # 0 /\ mim.rhs # 0) /\ (sgn(mim.lhs) # sgn(mim.rhs))
        THEN IF abs(mim.lhs) >= abs(mim.rhs) THEN 0
             ELSE again(sgn(mim.rhs) * (abs(mim.rhs) - abs(mim.lhs)))
        ELSE again(mim.rhs)

(* The moves and adds the stream s starts with. *)
RECURSIVE LeadingRun(_)
LeadingRun(s) ==
    IF s = <<>> \/ Head(s) \notin (MoveCmds \cup AddCmds) THEN 0
    ELSE 1 + LeadingRun(Tail(s))

(* The calls of plantMoveAddMove nested in the one plantExpr makes for a   *)
(* move character or for a `[` are no more than the moves and adds that    *)
(* follow the character.                                                   *)
NestingBounded ==
    /\ [][AtWindow
            => nested(TopWindow.s, TopWindow.mim)
                  <= LeadingRun(Tail(CmdStream(planter)))]_vars
    /\ [][AtLoop
            => nested(LoopWindow.s, LoopWindow.mim)
                  <= LeadingRun(Tail(CmdStream(planter)))]_vars

(* The compiler ends, with HALT planted and written out, or it has run     *)
(* into the undefined behaviour of a `]` that closes no loop.              *)
LiftingEndsOrStrays ==
    <>(\/ cstatus = "exited" /\ ir # <<>> /\ IsOp(ir[Len(ir)], "HALT")
       \/ cstatus \in {"crashed", "astray"})

(* C39: plantProgram terminates on every source: the calls nested in one   *)
(* call of plantMoveAddMove are no more than the moves and adds left, and  *)
(* the lifter ends with HALT planted and the program written out.          *)
C39_LiftingTerminates ==
    /\ NestingBounded
    /\ <>(cstatus = "exited" /\ ir # <<>> /\ IsOp(ir[Len(ir)], "HALT"))

====
